---- MODULE Spec2Model ----
(***************************************************************************)
(* Edge/cloud synchronisation backend: the operator, login-log and admin   *)
(* tables of each peer, the CRUD handlers of routers/operators.py and      *)
(* routers/admin.py, and the two sync handlers of routers/sync.py.         *)
(*                                                                         *)
(* Timestamps are naturals read from one clock `now`; 2000-01-01T00:00:00  *)
(* is Floor.  A nullable column holds NoTime / None when it is NULL.       *)
(* The routers read and write the columns deleted / deleted_at of          *)
(* operators and login logs; the rows below carry them as the routers use  *)
(* them (models.py, as it stands, declares neither column).                *)
(***************************************************************************)
EXTENDS Integers, Sequences, FiniteSets, TLC

\* ---------------------------------------------------------------- bounds
MaxTime == 2
MaxRows == 2
MaxCalls == 2

\* ------------------------------------------------------------- constants
Floor == 0
NoTime == 0 - 1
None == "None"
Missing == "<missing>"

Peers == {"A", "B"}
OperatorIds == {"OP1", "OP2"}
Times == 1..MaxTime

\* ------------------------------------------------------------ wire values
\* A JSON timestamp field: an ISO-8601 text, a text that is no timestamp,
\* JSON null, or a key that is absent from the item.
isoformat(t) == [k |-> "iso", t |-> t]
BadTime == [k |-> "bad", t |-> 0]
NullTime == [k |-> "null", t |-> 0]
MissingTime == [k |-> "missing", t |-> 0]

\* datetime.fromisoformat: defined on ISO texts only (ValueError on other
\* text, TypeError on null).
ParsesAsTime(w) == w.k = "iso"
fromisoformat(w) == w.t

\* dict.get(key, default): the default only when the key is absent.
GetTime(w, default) == IF w.k = "missing" THEN default ELSE w
GetStr(v, default) == IF v = Missing THEN default ELSE v
\* Python truthiness of d.get(key) for a timestamp or text field.
TruthyTime(w) == w.k \in {"iso", "bad"}

\* -------------------------------------------------------------- base64
\* Bytes are sequences over 0..255; the text is a sequence of alphabet
\* indices 0..63, Pad for '=', and Junk for a character outside the alphabet.
Pad == 64
Junk == 65

RECURSIVE b64encode(_)
b64encode(b) ==
    IF Len(b) = 0 THEN << >>
    ELSE IF Len(b) = 1 THEN
        << b[1] \div 4, (b[1] % 4) * 16, Pad, Pad >>
    ELSE IF Len(b) = 2 THEN
        << b[1] \div 4, (b[1] % 4) * 16 + (b[2] \div 16), (b[2] % 16) * 4, Pad >>
    ELSE
        << b[1] \div 4, (b[1] % 4) * 16 + (b[2] \div 16),
           (b[2] % 16) * 4 + (b[3] \div 64), b[3] % 64 >>
        \o b64encode(SubSeq(b, 4, Len(b)))

\* b64decode(s) with validate=False: characters outside the alphabet are
\* discarded, then the padding is checked.
RECURSIVE Sextets(_)
Sextets(s) ==
    IF Len(s) = 0 THEN << >>
    ELSE IF s[1] < Pad THEN << s[1] >> \o Sextets(Tail(s))
    ELSE Sextets(Tail(s))

RECURSIVE PadCount(_)
PadCount(s) ==
    IF Len(s) = 0 THEN 0
    ELSE (IF s[1] = Pad THEN 1 ELSE 0) + PadCount(Tail(s))

RECURSIVE DecodeSextets(_)
DecodeSextets(q) ==
    IF Len(q) < 2 THEN << >>
    ELSE IF Len(q) = 2 THEN << q[1] * 4 + (q[2] \div 16) >>
    ELSE IF Len(q) = 3 THEN
        << q[1] * 4 + (q[2] \div 16), (q[2] % 16) * 16 + (q[3] \div 4) >>
    ELSE
        << q[1] * 4 + (q[2] \div 16), (q[2] % 16) * 16 + (q[3] \div 4),
           (q[3] % 4) * 64 + q[4] >>
        \o DecodeSextets(SubSeq(q, 5, Len(q)))

\* binascii.Error ("Incorrect padding") unless the kept characters and the
\* padding make whole quanta.
CanDecode(s) ==
    LET n == Len(Sextets(s)) IN
        /\ n % 4 # 1
        /\ (n % 4 = 0) \/ (PadCount(s) >= 4 - (n % 4))
b64decode(s) == DecodeSextets(Sextets(s))

\* The face_image_b64 field: a base64 text, or the empty text for null/absent.
NoImage == << >>
Image1 == << 7, 200 >>
BadB64 == << 1 >>

\* ---------------------------------------------------------------- rows
NoPath == [op |-> None, t |-> NoTime]
\* f"{operator_id}_{now:%Y%m%d_%H%M%S}.jpg" under settings.upload_dir
ImagePath(id, t) == [op |-> id, t |-> t]

\* os.path.exists / open(path, 'rb') / open(path, 'wb') on the upload dir,
\* a set of [path, data] with one entry per path.
FileExists(fs, path) == \E f \in fs : f.path = path
ReadFile(fs, path) == (CHOOSE f \in fs : f.path = path).data
WriteFile(fs, path, data) ==
    {f \in fs : f.path # path} \cup {[path |-> path, data |-> data]}

\* The soft-delete columns of operators and login logs: a flag, FALSE on a
\* new row, and the time of the deletion.
SoftDeleteColumns == [deleted |-> FALSE, deleted_at |-> NoTime]

\* Operator(...), with the column defaults of models.py: status "Offline",
\* created_at = now(), synced_to_cloud False, nullable columns NULL.
NewOperator(id, name, machine_no, shift, path, t) ==
    [operator_id |-> id, name |-> name, machine_no |-> machine_no,
     shift |-> shift, status |-> "Offline", face_image_path |-> path,
     created_at |-> t, synced_to_cloud |-> FALSE, cloud_updated_at |-> NoTime]
    @@ SoftDeleteColumns

NewLoginLog(id, login_time, shift, date, t) ==
    [operator_id |-> id, login_time |-> login_time, logout_time |-> NoTime,
     shift |-> shift, date |-> date, created_at |-> t,
     synced_to_cloud |-> FALSE, synced_at |-> NoTime]
    @@ SoftDeleteColumns

NewAdmin(username, hashed_password, t) ==
    [username |-> username, hashed_password |-> hashed_password, created_at |-> t]

\* nullable=False columns of models.py
OperatorRowValid(r) ==
    r.operator_id # None /\ r.name # None /\ r.machine_no # None
LoginLogRowValid(r) ==
    r.operator_id # None /\ r.shift # None /\ r.date # None
AdminRowValid(r) ==
    r.username # None /\ r.hashed_password # None

\* ------------------------------------------------------------- session
\* One request's database session: its view of the three tables (what the
\* request has added or changed included), whether that view holds a row
\* the database will refuse, whether a flush has already failed, and the
\* handler's counters.  files is the upload directory (not transactional);
\* fk tells whether the database enforces the foreign key of login_logs.
Session(ops, lgs, adm, fs) ==
    [ops |-> ops, logs |-> lgs, admins |-> adm, files |-> fs,
     bad |-> FALSE, failed |-> FALSE, oc |-> 0, lc |-> 0, ac |-> 0,
     printed |-> 0, fk |-> FALSE]

\* A query first flushes what the session holds: the database refuses an
\* invalid row, the transaction is rolled back and every later use of the
\* session raises until the request ends.
Query(c) == IF c.bad THEN [c EXCEPT !.failed = TRUE] ELSE c

\* except Exception as e: print(f"Error syncing ...: {e}"): the item is
\* given up, the failure goes to the console and the loop goes on.
Caught(c) == [c EXCEPT !.printed = c.printed + 1]

\* A lookup that never finds the operator (mutant of FindOperator).
FindOperatorNever(ops, id) == 0

\* db.query(Operator).filter(Operator.operator_id == id).first()
FindOperator(ops, id) ==
    IF \E i \in 1..Len(ops) : ops[i].operator_id = id
    THEN CHOOSE i \in 1..Len(ops) :
            /\ ops[i].operator_id = id
            /\ \A j \in 1..(i - 1) : ops[j].operator_id # id
    ELSE 0

\* A lookup that never finds the log (mutant of LogExists).
LogExistsNever(lgs, id, login_time) == FALSE

\* db.query(LoginLog).filter(operator_id == .., login_time == ..).first()
LogExists(lgs, id, login_time) ==
    \E i \in 1..Len(lgs) :
        lgs[i].operator_id = id /\ lgs[i].login_time = login_time

\* A lookup that never finds the admin (mutant of AdminExists).
AdminExistsNever(adm, username) == FALSE

\* db.query(Admin).filter(Admin.username == username).first()
AdminExists(adm, username) ==
    \E i \in 1..Len(adm) : adm[i].username = username

HasOperatorRow(ops, id) == FindOperator(ops, id) # 0

PutOperator(c, i, e) ==
    [c EXCEPT !.ops[i] = e, !.bad = c.bad \/ ~OperatorRowValid(e)]
AddOperator(c, e) ==
    [c EXCEPT !.ops = Append(c.ops, e), !.bad = c.bad \/ ~OperatorRowValid(e)]
\* login_logs.operator_id is ForeignKey("operators.operator_id"): where the
\* database enforces it, a log of an operator_id without a row is refused.
ForeignKeyHolds(c, e) == c.fk => HasOperatorRow(c.ops, e.operator_id)
AddLog(c, e) ==
    [c EXCEPT !.logs = Append(c.logs, e),
              !.bad = c.bad \/ ~LoginLogRowValid(e) \/ ~ForeignKeyHolds(c, e)]
AddAdmin(c, e) ==
    [c EXCEPT !.admins = Append(c.admins, e), !.bad = c.bad \/ ~AdminRowValid(e)]

GetBool(v) == IF v = Missing THEN FALSE ELSE v = "true"
OptTime(w) == IF TruthyTime(w) THEN fromisoformat(w) ELSE NoTime
OptTimeRaises(w) == TruthyTime(w) /\ ~ParsesAsTime(w)

\* ------------------------------------------------- receive_all_data: items
\* The image of an incoming operator: decoded and written when the item
\* carries one; a decode error is printed and nothing is written.
ImageSaved(d) == d.face_image_b64 # NoImage /\ CanDecode(d.face_image_b64)
SaveImage(fs, d, t) ==
    IF ImageSaved(d)
    THEN WriteFile(fs, ImagePath(d.operator_id, t), b64decode(d.face_image_b64))
    ELSE fs

\* The timestamp the handler compares for an incoming operator.
IncomingTimestamp(d) == fromisoformat(GetTime(d.created_at, isoformat(Floor)))
\* existing.cloud_updated_at or existing.created_at
ExistingTimestamp(e) ==
    IF e.cloud_updated_at # NoTime THEN e.cloud_updated_at ELSE e.created_at
\* "Latest timestamp wins"
IncomingWins(d, e) == IncomingTimestamp(d) > ExistingTimestamp(e)

\* The assignments of the update branch, in order; an exception part-way
\* leaves the earlier assignments on the row and skips the counter.
UpdateExisting(c, i, d, t) ==
    LET e == c.ops[i]
        e1 == [e EXCEPT !.name = d.name]
        e2 == [e1 EXCEPT !.machine_no = d.machine_no,
                         !.shift = GetStr(d.shift, None),
                         !.status = GetStr(d.status, "Offline"),
                         !.deleted = GetBool(d.deleted)]
        e3 == [e2 EXCEPT !.deleted_at = OptTime(d.deleted_at),
                         !.cloud_updated_at = t]
        e4 == IF ImageSaved(d)
              THEN [e3 EXCEPT !.face_image_path = ImagePath(d.operator_id, t)]
              ELSE e3
    IN  IF d.name = Missing THEN Caught(c)
        ELSE IF d.machine_no = Missing THEN Caught(PutOperator(c, i, e1))
        ELSE IF OptTimeRaises(d.deleted_at) THEN Caught(PutOperator(c, i, e2))
        ELSE [PutOperator(c, i, e4) EXCEPT !.files = SaveImage(c.files, d, t),
                                           !.oc = c.oc + 1]

\* A create branch that leaves the sync columns at their defaults (mutant
\* of CreateNew).
CreateNewUnsynced(c, d, t) ==
    LET row == [NewOperator(d.operator_id, d.name, d.machine_no,
                            GetStr(d.shift, None), NoPath, t)
                EXCEPT !.status = GetStr(d.status, "Offline"),
                       !.deleted = GetBool(d.deleted),
                       !.deleted_at = OptTime(d.deleted_at)]
    IN  IF d.name = Missing \/ d.machine_no = Missing \/ OptTimeRaises(d.deleted_at)
        THEN Caught(c)
        ELSE [AddOperator(c, row) EXCEPT !.oc = c.oc + 1]

\* The create branch: the image, the row with synced_to_cloud and
\* cloud_updated_at set, db.add, the counter.
CreateNew(c, d, t) ==
    LET c1 == [c EXCEPT !.files = SaveImage(c.files, d, t)]
        row == [NewOperator(d.operator_id, d.name, d.machine_no,
                            GetStr(d.shift, None),
                            IF ImageSaved(d) THEN ImagePath(d.operator_id, t)
                                             ELSE NoPath, t)
                EXCEPT !.status = GetStr(d.status, "Offline"),
                       !.deleted = GetBool(d.deleted),
                       !.deleted_at = OptTime(d.deleted_at),
                       !.synced_to_cloud = TRUE,
                       !.cloud_updated_at = t]
    IN  IF d.name = Missing \/ d.machine_no = Missing \/ OptTimeRaises(d.deleted_at)
        THEN Caught(c1)
        ELSE [AddOperator(c1, row) EXCEPT !.oc = c1.oc + 1]

\* One pass of the "Sync Operators" loop body, its try/except included.
SyncOperatorItem(c, d, t) ==
    IF d.operator_id = Missing THEN Caught(c)
    ELSE LET q == Query(c) IN
        IF q.failed THEN Caught(q)
        ELSE IF ~ParsesAsTime(GetTime(d.created_at, isoformat(Floor))) THEN Caught(q)
        ELSE LET i == FindOperator(q.ops, d.operator_id) IN
            IF i # 0
            THEN IF IncomingWins(d, q.ops[i])
                 THEN UpdateExisting(q, i, d, t)
                 ELSE [q EXCEPT !.oc = q.oc + 1]
            ELSE CreateNew(q, d, t)

\* A loop body that brings a stored log of the incoming key up to the
\* incoming item instead of leaving it.
SyncLogItemUpsert(c, d, t) ==
    IF d.operator_id = Missing \/ ~ParsesAsTime(d.login_time) THEN Caught(c)
    ELSE LET q == Query(c) IN
        IF q.failed THEN Caught(q)
        ELSE IF \/ OptTimeRaises(d.logout_time)
                \/ d.shift = Missing \/ d.date = Missing
                \/ OptTimeRaises(d.deleted_at)
        THEN Caught(q)
        ELSE IF LogExists(q.logs, d.operator_id, fromisoformat(d.login_time))
        THEN [q EXCEPT !.logs = [k \in 1..Len(q.logs) |->
                 IF /\ q.logs[k].operator_id = d.operator_id
                    /\ q.logs[k].login_time = fromisoformat(d.login_time)
                 THEN [q.logs[k] EXCEPT !.logout_time = OptTime(d.logout_time),
                                        !.shift = d.shift, !.date = d.date,
                                        !.deleted = GetBool(d.deleted),
                                        !.deleted_at = OptTime(d.deleted_at),
                                        !.synced_to_cloud = TRUE, !.synced_at = t]
                 ELSE q.logs[k]]]
        ELSE LET row == [NewLoginLog(d.operator_id, fromisoformat(d.login_time),
                                     d.shift, d.date, t)
                         EXCEPT !.logout_time = OptTime(d.logout_time),
                                !.deleted = GetBool(d.deleted),
                                !.deleted_at = OptTime(d.deleted_at),
                                !.synced_to_cloud = TRUE,
                                !.synced_at = t]
             IN [AddLog(q, row) EXCEPT !.lc = q.lc + 1]

\* One pass of the "Sync Login Logs" loop body.
SyncLogItem(c, d, t) ==
    IF d.operator_id = Missing \/ ~ParsesAsTime(d.login_time) THEN Caught(c)
    ELSE LET q == Query(c) IN
        IF q.failed THEN Caught(q)
        ELSE IF LogExists(q.logs, d.operator_id, fromisoformat(d.login_time)) THEN q
        ELSE IF \/ OptTimeRaises(d.logout_time)
                \/ d.shift = Missing \/ d.date = Missing
                \/ OptTimeRaises(d.deleted_at)
        THEN Caught(q)
        ELSE LET row == [NewLoginLog(d.operator_id, fromisoformat(d.login_time),
                                     d.shift, d.date, t)
                         EXCEPT !.logout_time = OptTime(d.logout_time),
                                !.deleted = GetBool(d.deleted),
                                !.deleted_at = OptTime(d.deleted_at),
                                !.synced_to_cloud = TRUE,
                                !.synced_at = t]
             IN [AddLog(q, row) EXCEPT !.lc = q.lc + 1]

\* One pass of the "Sync Admins" loop body.
SyncAdminItem(c, d, t) ==
    IF d.username = Missing THEN Caught(c)
    ELSE LET q == Query(c) IN
        IF q.failed THEN Caught(q)
        ELSE IF AdminExists(q.admins, d.username) THEN q
        ELSE IF d.hashed_password = Missing THEN Caught(q)
        ELSE [AddAdmin(q, NewAdmin(d.username, d.hashed_password, t))
              EXCEPT !.ac = q.ac + 1]

RECURSIVE SyncOperators(_, _, _)
SyncOperators(c, items, t) ==
    IF items = << >> THEN c
    ELSE SyncOperators(SyncOperatorItem(c, Head(items), t), Tail(items), t)

RECURSIVE SyncLogs(_, _, _)
SyncLogs(c, items, t) ==
    IF items = << >> THEN c
    ELSE SyncLogs(SyncLogItem(c, Head(items), t), Tail(items), t)

RECURSIVE SyncAdmins(_, _, _)
SyncAdmins(c, items, t) ==
    IF items = << >> THEN c
    ELSE SyncAdmins(SyncAdminItem(c, Head(items), t), Tail(items), t)

\* The three loops in the handler's order, then the flush of db.commit().
RunImport(c, data, t) ==
    Query(SyncAdmins(SyncLogs(SyncOperators(c, data.operators, t),
                              data.logs, t),
                     data.admins, t))

\* ================================================================ state
VARIABLES
    now,        \* the clock datetime.now() and the database's now() read
    operators,  \* operators[p]: the committed operators table of peer p
    logs,       \* logs[p]: the committed login_logs table of peer p
    admins,     \* admins[p]: the committed admins table of peer p
    files,      \* files[p]: the upload directory of peer p
    last,       \* the most recent request and its response
    watermark,  \* the sync client's watermark: the sync_timestamp it last kept
    calls,      \* the receive_all_data calls the server has been sent
    exchange,   \* the legs of full exchanges the sync client has carried out
    mqtt_client,\* the module's MQTTClient instance: client, connected, connection_attempts
    clients,    \* the mqtt.Client objects made so far, in the order they were made
    broker,     \* whether the broker can be reached
    flow        \* flow[t]: where thread t stands inside a publisher method

vars == << now, operators, logs, admins, files, last, watermark, calls, exchange,
           mqtt_client, clients, broker, flow >>

\* The publisher and what it talks to.
pubvars == << mqtt_client, clients, broker, flow >>

EmptySnapshot == [operators |-> << >>, logs |-> << >>, admins |-> << >>]

\* The keys of the JSON object a sync handler returns.
ResponseKeys(op, status) ==
    IF status # 200 THEN {"detail"}
    ELSE IF op = "receive_all_data"
    THEN {"message", "operators_synced", "logs_synced", "admins_synced"}
    ELSE IF op = "get_all_data_since"
    THEN {"operators", "logs", "admins", "sync_timestamp"}
    ELSE {}

\* A request/response pair: the handler, the peer, the operator it names,
\* the body of a sync request (or response), the HTTP status, the three
\* counters of the sync response, its sync_timestamp and its keys, the
\* number of item failures the handler printed, and the since parameter of
\* an export.
Call(op, p, id, data, status, c, t) ==
    [op |-> op, peer |-> p, data |-> data, status |-> status,
     operators_synced |-> c.oc, logs_synced |-> c.lc, admins_synced |-> c.ac,
     sync_timestamp |-> t, keys |-> ResponseKeys(op, status),
     printed |-> c.printed, since |-> MissingTime,
     mqtt_success |-> None, signal |-> [topic |-> None], made |-> 0,
     was_connected |-> None, reconnect |-> None]
NoCounts == [oc |-> 0, lc |-> 0, ac |-> 0, printed |-> 0]

\* An mqtt.Client as connect() makes it: its network loop not started, no
\* socket.  loop: the loop thread runs; session: "none" (no socket),
\* "pending" (CONNECT sent, no CONNACK read yet) or "open"; closed: the
\* client was told to disconnect and has not been told to connect since.
NewClient == [loop |-> FALSE, session |-> "none", closed |-> FALSE]

\* main.py lifespan: mqtt_client.connect() has run before the first request
\* is served.  Serving is the publisher after a connect() the broker
\* accepted; NoFlow a thread outside every publisher method.
Serving == [client |-> 1, connected |-> TRUE, connection_attempts |-> 0]
NoFlow == [pc |-> "idle", op |-> None, action |-> None, machine_no |-> None,
           operator_id |-> None, made |-> 0]

\* init_db.create_default_admin: one admin on a fresh database.
DefaultAdmin == NewAdmin("admin", "h-admin", 1)

InitStore ==
    /\ now = 1
    /\ operators = [p \in Peers |-> << >>]
    /\ logs = [p \in Peers |-> << >>]
    /\ admins = [p \in Peers |-> << DefaultAdmin >>]
    /\ files = [p \in Peers |-> {}]
    /\ last = Call("start", "A", None, EmptySnapshot, 200, NoCounts, NoTime)
    /\ watermark = Floor
    /\ calls = << >>
    /\ exchange = 0

Init ==
    /\ InitStore
    /\ mqtt_client = Serving
    /\ clients = << [NewClient EXCEPT !.loop = TRUE, !.session = "open"] >>
    /\ broker = "up"
    /\ flow = [t \in {"main", "net"} |-> NoFlow]

OpenSession(p) == Session(operators[p], logs[p], admins[p], files[p])

\* db.commit() of session c on peer p; the files were written as they came.
Persist(p, c) ==
    /\ operators' = [operators EXCEPT ![p] = c.ops]
    /\ logs' = [logs EXCEPT ![p] = c.logs]
    /\ admins' = [admins EXCEPT ![p] = c.admins]
    /\ files' = [files EXCEPT ![p] = c.files]

\* The request ends without a commit: the session is closed, its changes
\* are dropped, the files it wrote stay.
Discard(p, c) ==
    /\ files' = [files EXCEPT ![p] = c.files]
    /\ UNCHANGED << operators, logs, admins >>

Tick ==
    /\ now < MaxTime
    /\ now' = now + 1
    /\ UNCHANGED << operators, logs, admins, files, last, watermark, calls, exchange, pubvars >>

\* ------------------------------------------------------- mqtt_client.py
\* MQTTClient.__init__: no client object, not connected, no attempt made.
MaxClients == 2
max_reconnect_attempts == 5
MQTTClient == [client |-> 0, connected |-> FALSE, connection_attempts |-> 0]

\* The reason codes the callbacks tell apart: on_connect 0 (accepted) and
\* a refusal; on_disconnect 7 (connection lost) and another failure.
ConnackCodes == {0, 5}
LostCodes == {1, 7}

\* The two threads that run publisher code: the server's event loop
\* ("main": lifespan and the request handlers) and the client's network
\* loop ("net": the callbacks).
Threads == {"main", "net"}
NoSignal == [topic |-> None]
MainIdle == flow["main"].pc = "idle"
NetIdle == flow["net"].pc = "idle"

\* A Python bool as the record of a call holds it.
PyBool(b) == IF b THEN "True" ELSE "False"

_on_connect(m, rc) ==
    IF rc = 0
    THEN [m EXCEPT !.connected = TRUE, !.connection_attempts = 0]
    ELSE [m EXCEPT !.connected = FALSE]

\* self.client.reconnect(): raises with no client object (AttributeError)
\* and when the broker cannot be reached; otherwise a new socket is opened
\* and CONNECT sent.
CanReconnect(cl, k) == k # 0 /\ broker = "up"
Reconnected(cl, k) == [cl EXCEPT ![k].session = "pending", ![k].closed = FALSE]

\* f"{settings.mqtt_topic_prefix}/{machine_no}/unlock"
\* A topic of its own for the machine's lock channel.
TopicLockChannel(machine_no) == "factory/machine" \o "/" \o machine_no \o "/lock"

\* with settings.mqtt_topic_prefix = "factory/machine"
Topic(machine_no) == "factory/machine" \o "/" \o machine_no \o "/unlock"
Message(action, machine_no, operator_id, t) ==
    [action |-> action, operator_id |-> operator_id, machine_no |-> machine_no,
     timestamp |-> isoformat(t)]

\* self.client.publish(topic, payload, qos=1, retain=False): raises with
\* no client object and for a topic with a wildcard in it; hands the
\* message to the socket when there is one; answers MQTT_ERR_NO_CONN
\* otherwise.
MachineNos == {"M1", "M#"}
ClientPublish(cl, k, machine_no) ==
    IF k = 0 \/ machine_no \in {"M#"} THEN "raises"
    ELSE IF cl[k].session # "none" THEN "MQTT_ERR_SUCCESS"
    ELSE "MQTT_ERR_NO_CONN"

\* The try block of publish_unlock_signal and publish_lock_signal without
\* its except clause.
TryBlockUncaught(m, cl, action, machine_no, operator_id, t) ==
    LET rc == ClientPublish(cl, m.client, machine_no) IN
    [ok |-> IF rc = "raises" THEN "raised" ELSE PyBool(rc = "MQTT_ERR_SUCCESS"),
     signal |-> IF rc = "MQTT_ERR_SUCCESS"
                THEN [topic |-> Topic(machine_no),
                      payload |-> Message(action, machine_no, operator_id, t),
                      qos |-> 1, retain |-> FALSE]
                ELSE NoSignal]

\* The try block of publish_unlock_signal and publish_lock_signal: what it
\* returns and what it sent.
TryBlock(m, cl, action, machine_no, operator_id, t) ==
    LET rc == ClientPublish(cl, m.client, machine_no) IN
    [ok |-> PyBool(rc = "MQTT_ERR_SUCCESS"),
     signal |-> IF rc = "MQTT_ERR_SUCCESS"
                THEN [topic |-> Topic(machine_no),
                      payload |-> Message(action, machine_no, operator_id, t),
                      qos |-> 1, retain |-> FALSE]
                ELSE NoSignal]

\* The publish method of flow f goes on after its connection test: v is
\* TRUE when the publisher was connected or _reconnect returned True.  b
\* is the record of the call.
PublishContinues(t, f, m, cl, v, b) ==
    LET r == IF v THEN TryBlock(m, cl, f.action, f.machine_no, f.operator_id, now)
             ELSE [ok |-> "False", signal |-> NoSignal]
    IN
    /\ mqtt_client' = m
    /\ clients' = cl
    /\ flow' = [flow EXCEPT ![t] = NoFlow]
    /\ last' = [b EXCEPT !.mqtt_success = r.ok, !.signal = r.signal,
                         !.made = f.made]

\* _reconnect returns v to the method that called it: _on_disconnect
\* drops the value, a publish method goes on with it.
ReconnectReturns(t, f, m, cl, v, b) ==
    IF f.op = "_on_disconnect"
    THEN /\ mqtt_client' = m
         /\ clients' = cl
         /\ flow' = [flow EXCEPT ![t] = NoFlow]
         /\ last' = b
    ELSE PublishContinues(t, f, m, cl, v, [b EXCEPT !.reconnect = PyBool(v)])

\* The body of the loop of _reconnect up to the reconnect call: the
\* counter goes up by one, whatever the other thread has made of it since
\* the loop test.  made, the attempts of this run, is counted up to one
\* past the limit.
Attempt(t, f, m, cl, b) ==
    LET k == m.client
        ok == CanReconnect(cl, k)
    IN
    /\ mqtt_client' = [m EXCEPT !.connection_attempts = @ + 1]
    /\ clients' = IF ok THEN Reconnected(cl, k) ELSE cl
    /\ flow' = [flow EXCEPT ![t] =
                   [f EXCEPT !.pc = IF ok THEN "settle" ELSE "delay",
                             !.made = IF @ > max_reconnect_attempts
                                      THEN @ ELSE @ + 1]]
    /\ last' = b

\* The loop test of _reconnect and what follows it: into the body, or the
\* return of self.connected.  Nothing holds the other thread off between
\* the test and the body.
ReconnectLoop(t, f, m, cl, b) ==
    IF m.connection_attempts < max_reconnect_attempts /\ ~m.connected
    THEN /\ mqtt_client' = m
         /\ clients' = cl
         /\ flow' = [flow EXCEPT ![t] = [f EXCEPT !.pc = "attempt"]]
         /\ last' = b
    ELSE ReconnectReturns(t, f, m, cl, m.connected, b)

\* _reconnect after a loop test that passed: the body of the loop.
ReconnectAttempt(t) ==
    /\ flow[t].pc = "attempt"
    /\ Attempt(t, flow[t], mqtt_client, clients, last)
    /\ UNCHANGED << now, operators, logs, admins, files, watermark, calls, exchange,
                    broker >>

\* _reconnect after time.sleep(1): connected by now, or on to the delay.
ReconnectSettle(t) ==
    /\ flow[t].pc = "settle"
    /\ IF mqtt_client.connected
       THEN ReconnectReturns(t, flow[t], mqtt_client, clients, TRUE, last)
       ELSE /\ flow' = [flow EXCEPT ![t].pc = "delay"]
            /\ UNCHANGED << mqtt_client, clients, last >>
    /\ UNCHANGED << now, operators, logs, admins, files, watermark, calls, exchange, broker >>

\* _reconnect after time.sleep(self.reconnect_delay): back to the loop test.
ReconnectDelay(t) ==
    /\ flow[t].pc = "delay"
    /\ ReconnectLoop(t, flow[t], mqtt_client, clients, last)
    /\ UNCHANGED << now, operators, logs, admins, files, watermark, calls, exchange, broker >>

\* A publish method is entered with b the record of the call: connected,
\* it goes to its try block; not connected, into _reconnect.
BeginPublish(b, op, action, machine_no, operator_id) ==
    LET f == [NoFlow EXCEPT !.op = op, !.action = action,
                          !.machine_no = machine_no, !.operator_id = operator_id]
        b1 == [b EXCEPT !.was_connected = PyBool(mqtt_client.connected),
                        !.mqtt_success = "pending"]
    IN
    /\ MainIdle
    /\ broker' = broker
    /\ IF mqtt_client.connected
       THEN PublishContinues("main", f, mqtt_client, clients, TRUE, b1)
       ELSE ReconnectLoop("main", f, mqtt_client, clients, b1)

\* The record of a call of a publisher method that no handler made.
Called(op) == Call(op, "A", None, EmptySnapshot, 200, NoCounts, NoTime)

publish_unlock_signal(machine_no, operator_id) ==
    /\ BeginPublish(Called("publish_unlock_signal"), "publish_unlock_signal",
                    "unlock", machine_no, operator_id)
    /\ UNCHANGED << now, operators, logs, admins, files, watermark, calls, exchange >>

publish_lock_signal(machine_no, operator_id) ==
    /\ BeginPublish(Called("publish_lock_signal"), "publish_lock_signal",
                    "lock", machine_no, operator_id)
    /\ UNCHANGED << now, operators, logs, admins, files, watermark, calls, exchange >>

\* connect() up to time.sleep(2): a new client object every time; when
\* client.connect() raises, the except clause clears the flag and the
\* method returns; otherwise CONNECT is sent and the network loop started.
connect ==
    /\ MainIdle
    /\ Len(clients) < MaxClients
    /\ LET k == Len(clients) + 1 IN
       IF broker = "up"
       THEN /\ clients' = Append(clients, [NewClient EXCEPT !.loop = TRUE,
                                                           !.session = "pending"])
            /\ mqtt_client' = [mqtt_client EXCEPT !.client = k]
            /\ flow' = [flow EXCEPT !["main"] =
                           [NoFlow EXCEPT !.op = "connect", !.pc = "sleep"]]
            /\ last' = [Called("connect") EXCEPT !.mqtt_success = "pending"]
       ELSE /\ clients' = Append(clients, NewClient)
            /\ mqtt_client' = [mqtt_client EXCEPT !.client = k, !.connected = FALSE]
            /\ flow' = flow
            /\ last' = [Called("connect") EXCEPT !.mqtt_success = "raised"]
    /\ UNCHANGED << now, operators, logs, admins, files, watermark, calls, exchange, broker >>

\* connect() after time.sleep(2): it returns, connected or not.
ConnectReturns ==
    /\ flow["main"].op = "connect" /\ flow["main"].pc = "sleep"
    /\ flow' = [flow EXCEPT !["main"] = NoFlow]
    /\ last' = [last EXCEPT !.mqtt_success = None]
    /\ UNCHANGED << now, operators, logs, admins, files, watermark, calls, exchange,
                    mqtt_client, clients, broker >>

\* disconnect(): with a client object, loop_stop() waits for the network
\* thread to end, client.disconnect() closes the session, the flag is
\* cleared; with none, nothing.
disconnect ==
    /\ MainIdle
    /\ LET k == mqtt_client.client IN
       IF k # 0
       THEN /\ clients[k].loop => NetIdle
            /\ clients' = [clients EXCEPT ![k] = [loop |-> FALSE, session |-> "none",
                                                  closed |-> TRUE]]
            /\ mqtt_client' = [mqtt_client EXCEPT !.connected = FALSE]
       ELSE UNCHANGED << mqtt_client, clients >>
    /\ last' = Called("disconnect")
    /\ UNCHANGED << now, operators, logs, admins, files, watermark, calls, exchange,
                    broker, flow >>

\* ------------------------------------------------ the network loop thread
\* The loop thread of client k reads a CONNACK with reason code rc and
\* calls on_connect: the broker accepted the session, or refused it and
\* closed the socket.
on_connect(k, rc) ==
    /\ NetIdle
    /\ clients[k].loop /\ clients[k].session = "pending"
    /\ rc = 0 => broker = "up"
    /\ clients' = [clients EXCEPT ![k].session = IF rc = 0 THEN "open" ELSE "none"]
    /\ mqtt_client' = _on_connect(mqtt_client, rc)
    /\ UNCHANGED << now, operators, logs, admins, files, last, watermark, calls, exchange,
                    broker, flow >>

\* The loop thread of client k finds its socket closed and calls
\* on_disconnect with reason code rc # 0: _on_disconnect clears the flag
\* and, for rc = 7 only, runs _reconnect on this thread.
on_disconnect(k, rc) ==
    /\ NetIdle
    /\ clients[k].loop /\ clients[k].session # "none"
    /\ LET cl == [clients EXCEPT ![k].session = "none"]
           m == [mqtt_client EXCEPT !.connected = FALSE]
       IN IF rc = 7
          THEN ReconnectLoop("net", [NoFlow EXCEPT !.op = "_on_disconnect"], m, cl, last)
          ELSE /\ mqtt_client' = m
               /\ clients' = cl
               /\ UNCHANGED << last, flow >>
    /\ UNCHANGED << now, operators, logs, admins, files, watermark, calls, exchange, broker >>

\* The loop thread of client k, its socket gone and the client not told to
\* disconnect, connects again by itself after its own delay.
LoopReconnect(k) ==
    /\ NetIdle
    /\ clients[k].loop /\ clients[k].session = "none" /\ ~clients[k].closed
    /\ broker = "up"
    /\ clients' = Reconnected(clients, k)
    /\ UNCHANGED << now, operators, logs, admins, files, last, watermark, calls, exchange,
                    mqtt_client, broker, flow >>

\* The broker goes away, or comes back.
BrokerChanges ==
    /\ broker' = IF broker = "up" THEN "down" ELSE "up"
    /\ UNCHANGED << now, operators, logs, admins, files, last, watermark, calls, exchange,
                    mqtt_client, clients, flow >>

\* ------------------------------------------------ routers/operators.py
\* The face_image form field: no file, or a file and its bytes.
NoUpload == [filename |-> None, content |-> << >>]
Upload(b) == [filename |-> "face.jpg", content |-> b]

\* The upload is written under operator_id and the time when it has a
\* filename, whatever its content; the file stays when the commit does not.
create_operator(p, id, name, machine_no, shift, face_image) ==
    LET c0 == OpenSession(p)
        saved == face_image.filename # None
        path == IF saved THEN ImagePath(id, now) ELSE NoPath
        c == IF saved /\ FindOperator(c0.ops, id) = 0
             THEN [c0 EXCEPT !.files = WriteFile(c0.files, path, face_image.content)]
             ELSE c0
    IN
    /\ FindOperator(c.ops, id) # 0 \/ Len(operators[p]) < MaxRows
    /\ IF FindOperator(c.ops, id) # 0
       THEN /\ Discard(p, c)
            /\ last' = Call("create_operator", p, id, EmptySnapshot, 400, NoCounts, NoTime)
       ELSE /\ Persist(p, AddOperator(c, NewOperator(id, name, machine_no, shift, path, now)))
            /\ last' = Call("create_operator", p, id, EmptySnapshot, 201, NoCounts, NoTime)
    /\ UNCHANGED << now, watermark, calls, exchange, pubvars >>

\* update_data: the fields of OperatorUpdate that the request sets.
ApplyUpdate(e, u) ==
    [e EXCEPT !.name = GetStr(u.name, e.name),
              !.machine_no = GetStr(u.machine_no, e.machine_no),
              !.shift = GetStr(u.shift, e.shift),
              !.status = GetStr(u.status, e.status)]

update_operator(p, id, u) ==
    LET c == OpenSession(p)
        i == FindOperator(c.ops, id)
        c1 == Query(PutOperator(c, i, ApplyUpdate(c.ops[i], u)))
    IN
    /\ IF i = 0
       THEN /\ Discard(p, c)
            /\ last' = Call("update_operator", p, id, EmptySnapshot, 404, NoCounts, NoTime)
       ELSE IF c1.failed
       THEN /\ Discard(p, c)
            /\ last' = Call("update_operator", p, id, EmptySnapshot, 500, NoCounts, NoTime)
       ELSE /\ Persist(p, c1)
            /\ last' = Call("update_operator", p, id, EmptySnapshot, 200, NoCounts, NoTime)
    /\ UNCHANGED << now, watermark, calls, exchange, pubvars >>

\* Soft delete of the operator and of its login logs.
SoftDeleteLogs(lgs, id, t) ==
    [k \in 1..Len(lgs) |->
        IF lgs[k].operator_id = id
        THEN [lgs[k] EXCEPT !.deleted = TRUE, !.deleted_at = t,
                            !.synced_to_cloud = FALSE]
        ELSE lgs[k]]

\* A delete that removes the operator and its logs (mutant of
\* delete_operator).
delete_operator_hard(p, id) ==
    LET NotIt(r) == r.operator_id # id IN
    /\ operators' = [operators EXCEPT ![p] = SelectSeq(operators[p], NotIt)]
    /\ logs' = [logs EXCEPT ![p] = SelectSeq(logs[p], NotIt)]
    /\ last' = Call("delete_operator", p, id, EmptySnapshot,
                    IF HasOperatorRow(operators[p], id) THEN 204 ELSE 404,
                    NoCounts, NoTime)
    /\ UNCHANGED << now, admins, files, watermark, calls, exchange, pubvars >>

delete_operator(p, id) ==
    LET c == OpenSession(p)
        i == FindOperator(c.ops, id)
        e == [c.ops[i] EXCEPT !.deleted = TRUE, !.deleted_at = now,
                              !.synced_to_cloud = FALSE]
    IN
    /\ IF i = 0
       THEN /\ Discard(p, c)
            /\ last' = Call("delete_operator", p, id, EmptySnapshot, 404, NoCounts, NoTime)
       ELSE /\ Persist(p, [PutOperator(c, i, e) EXCEPT
                              !.logs = SoftDeleteLogs(c.logs, id, now)])
            /\ last' = Call("delete_operator", p, id, EmptySnapshot, 204, NoCounts, NoTime)
    /\ UNCHANGED << now, watermark, calls, exchange, pubvars >>

\* operator_login as it would be if a publish that cannot be made failed
\* the request: a publisher that is not connected ends it with 500 before
\* the commit.
operator_login_unless_published(p, id, shift, date) ==
    LET c == OpenSession(p)
        i == FindOperator(c.ops, id)
        c1 == PutOperator(c, i, [c.ops[i] EXCEPT !.status = "Active"])
    IN
    /\ MainIdle
    /\ Len(logs[p]) < MaxRows
    /\ IF i = 0
       THEN /\ Discard(p, c)
            /\ last' = Call("operator_login", p, id, EmptySnapshot, 404, NoCounts, NoTime)
            /\ UNCHANGED pubvars
       ELSE IF ~mqtt_client.connected
       THEN /\ Discard(p, c)
            /\ last' = Call("operator_login", p, id, EmptySnapshot, 500, NoCounts, NoTime)
            /\ UNCHANGED pubvars
       ELSE /\ Persist(p, AddLog(c1, NewLoginLog(id, now, shift, date, now)))
            /\ BeginPublish(Call("operator_login", p, id, EmptySnapshot, 200,
                                 NoCounts, NoTime),
                            "publish_unlock_signal", "unlock", c.ops[i].machine_no, id)
    /\ UNCHANGED << now, watermark, calls, exchange >>

operator_login(p, id, shift, date) ==
    LET c == OpenSession(p)
        i == FindOperator(c.ops, id)
        c1 == PutOperator(c, i, [c.ops[i] EXCEPT !.status = "Active"])
    IN
    /\ MainIdle
    /\ Len(logs[p]) < MaxRows
    /\ IF i = 0
       THEN /\ Discard(p, c)
            /\ last' = Call("operator_login", p, id, EmptySnapshot, 404, NoCounts, NoTime)
            /\ UNCHANGED pubvars
       ELSE /\ Persist(p, AddLog(c1, NewLoginLog(id, now, shift, date, now)))
            /\ BeginPublish(Call("operator_login", p, id, EmptySnapshot, 200,
                                 NoCounts, NoTime),
                            "publish_unlock_signal", "unlock", c.ops[i].machine_no, id)
    /\ UNCHANGED << now, watermark, calls, exchange >>

\* A logout that takes any open log of the operator, whatever its
\* login_time.
AnyOpen(lgs, id) ==
    {k \in 1..Len(lgs) : lgs[k].operator_id = id /\ lgs[k].logout_time = NoTime}

\* The open logs of the operator with the latest login_time: what
\* order_by(login_time.desc()).first() may return.
MostRecentOpen(lgs, id) ==
    {k \in 1..Len(lgs) :
        /\ lgs[k].operator_id = id /\ lgs[k].logout_time = NoTime
        /\ \A j \in 1..Len(lgs) :
              (lgs[j].operator_id = id /\ lgs[j].logout_time = NoTime)
                  => lgs[j].login_time <= lgs[k].login_time}

\* The status change is committed only together with a logout time: with no
\* open log the handler returns without db.commit().
operator_logout(p, id) ==
    LET c == OpenSession(p)
        i == FindOperator(c.ops, id)
        c1 == PutOperator(c, i, [c.ops[i] EXCEPT !.status = "Offline"])
    IN
    /\ MainIdle
    /\ IF i = 0
       THEN /\ Discard(p, c)
            /\ last' = Call("operator_logout", p, id, EmptySnapshot, 404, NoCounts, NoTime)
            /\ UNCHANGED pubvars
       ELSE /\ IF MostRecentOpen(c.logs, id) = {}
               THEN Discard(p, c)
               ELSE \E k \in MostRecentOpen(c1.logs, id) :
                       Persist(p, [c1 EXCEPT !.logs[k].logout_time = now])
            /\ BeginPublish(Call("operator_logout", p, id, EmptySnapshot, 200,
                                 NoCounts, NoTime),
                            "publish_lock_signal", "lock", c.ops[i].machine_no, id)
    /\ UNCHANGED << now, watermark, calls, exchange >>

\* ---------------------------------------------------- routers/admin.py
reset_database(p) ==
    /\ operators' = [operators EXCEPT ![p] = << >>]
    /\ logs' = [logs EXCEPT ![p] = << >>]
    /\ last' = Call("reset_database", p, None, EmptySnapshot, 200, NoCounts, NoTime)
    /\ UNCHANGED << now, admins, files, watermark, calls, exchange, pubvars >>

\* auth.get_password_hash: a hash that tells passwords apart.
get_password_hash(password) ==
    CASE password = "admin123" -> "h-admin"
      [] password = "pw1" -> "h-pw1"
      [] OTHER -> "h-other"

create_admin(p, username, password) ==
    LET c == OpenSession(p) IN
    /\ AdminExists(c.admins, username) \/ Len(admins[p]) < MaxRows
    /\ IF AdminExists(c.admins, username)
       THEN /\ Discard(p, c)
            /\ last' = Call("create_admin", p, None, EmptySnapshot, 400, NoCounts, NoTime)
       ELSE /\ Persist(p, AddAdmin(c, NewAdmin(username, get_password_hash(password), now)))
            /\ last' = Call("create_admin", p, None, EmptySnapshot, 201, NoCounts, NoTime)
    /\ UNCHANGED << now, watermark, calls, exchange, pubvars >>

\* ----------------------------------------------------- routers/sync.py
BoolText(b) == IF b THEN "true" ELSE "false"
OptIso(t) == IF t # NoTime THEN isoformat(t) ELSE NullTime

\* The operators_data entry of one row; the image is inlined when the row
\* names a file that exists.
OperatorToItem(r, fs) ==
    [operator_id |-> r.operator_id, name |-> r.name, machine_no |-> r.machine_no,
     shift |-> r.shift, status |-> r.status,
     face_image_b64 |->
        IF r.face_image_path # NoPath /\ FileExists(fs, r.face_image_path)
        THEN b64encode(ReadFile(fs, r.face_image_path)) ELSE NoImage,
     created_at |-> isoformat(r.created_at),
     cloud_updated_at |-> OptIso(r.cloud_updated_at),
     deleted |-> BoolText(r.deleted), deleted_at |-> OptIso(r.deleted_at)]

LogToItem(r) ==
    [operator_id |-> r.operator_id, login_time |-> isoformat(r.login_time),
     logout_time |-> OptIso(r.logout_time), shift |-> r.shift, date |-> r.date,
     created_at |-> isoformat(r.created_at),
     deleted |-> BoolText(r.deleted), deleted_at |-> OptIso(r.deleted_at)]

AdminToItem(r) ==
    [username |-> r.username, hashed_password |-> r.hashed_password,
     created_at |-> isoformat(r.created_at)]

\* A fallback to the latest time instead of 2000-01-01 (mutant of SinceDt).
SinceDtFallsBackLate(since) ==
    IF ParsesAsTime(since) THEN fromisoformat(since) ELSE MaxTime

\* since_dt: the parsed parameter, or 2000-01-01 when it does not parse.
SinceDt(since) == IF ParsesAsTime(since) THEN fromisoformat(since) ELSE Floor

\* A filter that also takes the rows created at since_dt (mutant of
\* CreatedAfter).
CreatedAtOrAfter(rows, since_dt) ==
    LET Later(r) == r.created_at >= since_dt IN SelectSeq(rows, Later)

\* The rows of a table with created_at > since_dt, in table order.
CreatedAfter(rows, since_dt) ==
    LET Later(r) == r.created_at > since_dt IN SelectSeq(rows, Later)

ExportSnapshot(ops, lgs, adm, fs, since) ==
    LET o == CreatedAfter(ops, SinceDt(since))
        l == CreatedAfter(lgs, SinceDt(since))
        a == CreatedAfter(adm, SinceDt(since))
    IN [operators |-> [k \in 1..Len(o) |-> OperatorToItem(o[k], fs)],
        logs |-> [k \in 1..Len(l) |-> LogToItem(l[k])],
        admins |-> [k \in 1..Len(a) |-> AdminToItem(a[k])]]

\* The handler: the three queries and the response, sync_timestamp = now.
GetAllDataSince(p, since) ==
    /\ last' = [Call("get_all_data_since", p, None,
                     ExportSnapshot(operators[p], logs[p], admins[p], files[p], since),
                     200, NoCounts, now)
                EXCEPT !.since = since]
    /\ UNCHANGED << now, operators, logs, admins, files, pubvars >>

get_all_data_since(p, since) ==
    GetAllDataSince(p, since) /\ UNCHANGED << watermark, calls, exchange >>

\* A handler that keeps what the session held when the commit failed
\* (mutant of ReceiveAllData).
ReceiveAllDataKeepsPartial(p, data) ==
    \E c \in {RunImport(OpenSession(p), data, now)} :
    /\ Len(c.ops) <= MaxRows /\ Len(c.logs) <= MaxRows /\ Len(c.admins) <= MaxRows
    /\ Persist(p, c)
    /\ last' = Call("receive_all_data", p, None, data,
                    IF c.failed THEN 500 ELSE 200,
                    IF c.failed THEN NoCounts ELSE c, NoTime)
    /\ UNCHANGED << now, pubvars >>

\* The database behind database_url: SQLite as it comes does not enforce
\* foreign keys, PostgreSQL does.
EnforcesForeignKeys == BOOLEAN

\* The handler: the three loops, db.commit(), the response.  An exception
\* of the commit leaves the handler (500) with nothing persisted.
ReceiveAllData(p, data) ==
    \E fk \in EnforcesForeignKeys :
    \E c \in {RunImport([OpenSession(p) EXCEPT !.fk = fk], data, now)} :
    /\ Len(c.ops) <= MaxRows /\ Len(c.logs) <= MaxRows /\ Len(c.admins) <= MaxRows
    /\ IF c.failed
       THEN /\ Discard(p, c)
            /\ last' = Call("receive_all_data", p, None, data, 500, NoCounts, NoTime)
       ELSE /\ Persist(p, c)
            /\ last' = Call("receive_all_data", p, None, data, 200, c, NoTime)
    /\ UNCHANGED << now, pubvars >>

receive_all_data(p, data) ==
    ReceiveAllData(p, data) /\ UNCHANGED << watermark, calls, exchange >>

\* ------------------------------------------------------------ sync client
\* The peer that drives a sync from src to dst: it pulls src's snapshot
\* since its watermark, posts that snapshot to dst, and keeps the
\* snapshot's sync_timestamp as its next watermark.
SnapshotInFlight == last.op = "get_all_data_since"

SyncPull(src) ==
    /\ ~SnapshotInFlight
    /\ get_all_data_since(src, isoformat(watermark))

SyncPush(dst) ==
    /\ SnapshotInFlight /\ last.peer # dst
    /\ ReceiveAllData(dst, last.data)
    /\ watermark' = last.sync_timestamp
    /\ UNCHANGED << calls, exchange >>

\* A full exchange between A and B, always since 2000-01-01: A's snapshot
\* is pulled and posted to B, then B's is pulled and posted to A.  exchange
\* counts the legs carried out: leg 4n+1 pulls from A, 4n+2 posts to B,
\* 4n+3 pulls from B, 4n+4 posts to A.
MaxLegs == 8

ExchangePull(src) ==
    /\ exchange < MaxLegs
    /\ exchange % 4 = (IF src = "A" THEN 0 ELSE 2)
    /\ GetAllDataSince(src, isoformat(Floor))
    /\ exchange' = exchange + 1
    /\ UNCHANGED << watermark, calls >>

ExchangePush(dst) ==
    /\ exchange % 4 = (IF dst = "B" THEN 1 ELSE 3)
    /\ ReceiveAllData(dst, last.data)
    /\ exchange' = exchange + 1
    /\ UNCHANGED << watermark, calls >>

\* The sync client is done after a whole number of full exchanges; the
\* stores take local requests again.
ExchangeEnds ==
    /\ exchange > 0 /\ exchange % 4 = 0
    /\ exchange' = 0
    /\ UNCHANGED << now, operators, logs, admins, files, last, watermark, calls,
                    pubvars >>

\* ------------------------------------------------------------ event loop
\* receive_all_data is a coroutine without an await: the server's event
\* loop runs one call from its first line to its return before it takes
\* another, in whatever order the calls come off the connections.  A
\* caller that gets no answer in time sends its call again while the first
\* is still waiting.
SendCall(data) ==
    /\ Len(calls) < MaxCalls
    /\ calls' = Append(calls, [data |-> data, twin |-> FALSE, done |-> FALSE])
    /\ UNCHANGED << now, operators, logs, admins, files, last, watermark, exchange,
                    pubvars >>

RetryCall(k) ==
    /\ Len(calls) < MaxCalls
    /\ ~calls[k].done
    /\ calls' = Append([calls EXCEPT ![k].twin = TRUE],
                       [data |-> calls[k].data, twin |-> TRUE, done |-> FALSE])
    /\ UNCHANGED << now, operators, logs, admins, files, last, watermark, exchange,
                    pubvars >>

ServeCall(p, k) ==
    /\ ~calls[k].done
    /\ ReceiveAllData(p, calls[k].data)
    /\ calls' = [calls EXCEPT ![k].done = TRUE]
    /\ UNCHANGED << watermark, exchange >>

\* ------------------------------------------------------ request bodies
OpItem(id, name, created_at, cloud_updated_at, deleted, deleted_at) ==
    [operator_id |-> id, name |-> name, machine_no |-> "M1", shift |-> "Day",
     status |-> "Offline", face_image_b64 |-> NoImage,
     created_at |-> created_at, cloud_updated_at |-> cloud_updated_at,
     deleted |-> BoolText(deleted), deleted_at |-> deleted_at]

LogItem(id, login_time, shift) ==
    [operator_id |-> id, login_time |-> login_time, logout_time |-> NullTime,
     shift |-> shift, date |-> "d1", created_at |-> login_time,
     deleted |-> "false", deleted_at |-> NullTime]

OnlyOperators(items) == [EmptySnapshot EXCEPT !.operators = items]
OnlyLogs(items) == [EmptySnapshot EXCEPT !.logs = items]

\* One operator item for OP1 over the grid of timestamps and delete flags.
TimestampBodies ==
    { OnlyOperators(<< OpItem("OP1", "n2", isoformat(ca), cu, del,
                              IF del THEN isoformat(ca) ELSE NullTime) >>) :
        ca \in Times, cu \in {NullTime, isoformat(MaxTime)}, del \in BOOLEAN }

\* Bodies with an item the handler cannot apply next to one it can.
FaultyItems ==
    { OpItem("OP1", Missing, isoformat(MaxTime), NullTime, FALSE, NullTime),
      OpItem("OP1", None, isoformat(MaxTime), NullTime, FALSE, NullTime),
      OpItem("OP1", "n2", BadTime, NullTime, FALSE, NullTime),
      OpItem("OP1", "n2", isoformat(MaxTime), NullTime, TRUE, BadTime) }
GoodLog == LogItem("OP1", isoformat(1), "Day")
FaultyBodies ==
    { [OnlyOperators(<< f >>) EXCEPT !.logs = << GoodLog >>] : f \in FaultyItems }
    \cup { OnlyLogs(<< LogItem("OP1", BadTime, "Day"), GoodLog >>) }

\* Bodies of login logs, two items with one key among them.
LogBodies ==
    { OnlyLogs(<< LogItem("OP1", isoformat(t), "Day") >>) : t \in {1, MaxTime} }
    \cup { OnlyLogs(<< LogItem("OP1", isoformat(1), "Day"),
                       LogItem("OP1", isoformat(1), "Night") >>) }

\* A few bodies of every shape, for the specification of the whole store.
Bodies ==
    { OnlyOperators(<< OpItem("OP1", "n2", isoformat(MaxTime), NullTime, del,
                              IF del THEN isoformat(MaxTime) ELSE NullTime) >>) :
        del \in BOOLEAN }
    \cup { OnlyLogs(<< LogItem("OP1", isoformat(t), "Night") >>) : t \in {1, MaxTime} }
    \cup { [OnlyOperators(<< OpItem("OP1", None, isoformat(MaxTime), NullTime,
                                    FALSE, NullTime) >>)
            EXCEPT !.logs = << GoodLog >>] }

UpdateNames == {"n3", None}
UpdateOf(name) ==
    [name |-> name, machine_no |-> Missing, shift |-> Missing, status |-> Missing]

\* ----------------------------------------------------------------- Spec
\* One store (peer A) under every handler, the sync bodies drawn from Bodies.
Next ==
    \/ Tick
    \/ create_operator("A", "OP1", "n1", "M1", "Day", NoUpload)
    \/ \E n \in UpdateNames : update_operator("A", "OP1", UpdateOf(n))
    \/ delete_operator("A", "OP1")
    \/ operator_login("A", "OP1", "Day", "d1")
    \/ operator_logout("A", "OP1")
    \/ reset_database("A")
    \/ \E data \in Bodies : receive_all_data("A", data)

Spec == Init /\ [][Next]_vars

\* ------------------------------------------------------------ SpecMerge
\* The operator registry of one store under create, update, delete and the
\* merge of one incoming operator over the grid of its timestamps.
NextMerge ==
    \/ Tick
    \/ create_operator("A", "OP1", "n1", "M1", "Day", NoUpload)
    \/ update_operator("A", "OP1", UpdateOf("n3"))
    \/ delete_operator("A", "OP1")
    \/ \E data \in TimestampBodies : receive_all_data("A", data)

SpecMerge == Init /\ [][NextMerge]_vars

\* ------------------------------------------------------------- SpecLogs
\* The login logs of one store under login, logout and the merge of
\* incoming logs, bodies with an inapplicable item included.
NextLogs ==
    \/ Tick
    \/ create_operator("A", "OP1", "n1", "M1", "Day", NoUpload)
    \/ operator_login("A", "OP1", "Day", "d1")
    \/ operator_logout("A", "OP1")
    \/ \E data \in LogBodies \cup FaultyBodies : receive_all_data("A", data)

SpecLogs == Init /\ [][NextLogs]_vars

\* ------------------------------------------------------------- SpecKeep
\* One store under every handler that writes operators or logs, with one
\* incoming operator and one incoming log.
KeepBodies ==
    { [OnlyOperators(<< OpItem("OP1", "n2", isoformat(MaxTime), NullTime, TRUE,
                               isoformat(MaxTime)) >>)
          EXCEPT !.logs = << LogItem("OP1", isoformat(1), "Night") >>] }

NextKeep ==
    \/ Tick
    \/ create_operator("A", "OP1", "n1", "M1", "Day", NoUpload)
    \/ update_operator("A", "OP1", UpdateOf("n3"))
    \/ delete_operator("A", "OP1")
    \/ operator_login("A", "OP1", "Day", "d1")
    \/ operator_logout("A", "OP1")
    \/ reset_database("A")
    \/ \E data \in KeepBodies : receive_all_data("A", data)

SpecKeep == Init /\ [][NextKeep]_vars

\* =============================================================== claims
\* A step of one handler: the handlers leave the clock alone and record
\* their call; Tick records nothing.
HandlerStep(op) == now' = now /\ last'.op = op

HasOperator(ops, id) == HasOperatorRow(ops, id)
RowOf(ops, id) == ops[FindOperator(ops, id)]
OperatorIdsOf(ops) == {ops[i].operator_id : i \in 1..Len(ops)}
LogKey(r) == << r.operator_id, r.login_time >>
LogKeysOf(lgs) == {LogKey(lgs[i]) : i \in 1..Len(lgs)}
LogsWithKey(lgs, key) == {i \in 1..Len(lgs) : LogKey(lgs[i]) = key}

\* The update timestamp of an incoming operator as the design states it:
\* its cloud_updated_at, or its created_at when it carries none.
StatedUpdateTimestamp(d) ==
    IF ParsesAsTime(d.cloud_updated_at) THEN fromisoformat(d.cloud_updated_at)
    ELSE fromisoformat(d.created_at)

\* The row carries what the incoming item says.
CarriesItem(e, d) ==
    /\ e.name = d.name /\ e.machine_no = d.machine_no
    /\ e.shift = d.shift /\ e.status = d.status
    /\ e.deleted = (d.deleted = "true")

\* C1 (as stated): a second receive_all_data with the body of the call just
\* made, no other request in between, changes no table and reports no
\* applied operator and no applied log.
C1_RetryIsNoOp ==
    [][ ( /\ HandlerStep("receive_all_data")
          /\ last.op = "receive_all_data" /\ last.status = 200
          /\ last'.peer = last.peer /\ last'.data = last.data )
        => ( /\ operators' = operators /\ logs' = logs /\ admins' = admins
             /\ last'.operators_synced = 0 /\ last'.logs_synced = 0 ) ]_vars

\* C2 (as stated): an incoming operator whose operator_id exists locally
\* overwrites the local row exactly when its update timestamp is strictly
\* later than the row's (cloud_updated_at, else created_at); otherwise the
\* row keeps every field.
C2_UpdateIffStrictlyLater ==
    [][ ( /\ HandlerStep("receive_all_data")
          /\ Len(last'.data.operators) = 1
          /\ HasOperator(operators[last'.peer], last'.data.operators[1].operator_id) )
        => LET d == last'.data.operators[1]
               e == RowOf(operators[last'.peer], d.operator_id)
               e2 == RowOf(operators'[last'.peer], d.operator_id)
           IN IF StatedUpdateTimestamp(d) > ExistingTimestamp(e)
              THEN CarriesItem(e2, d) /\ e2.cloud_updated_at = now
              ELSE e2 = e ]_vars

\* C3 (as stated): the timestamp receive_all_data compares for an incoming
\* operator is the item's cloud_updated_at when it carries one, and its
\* created_at only when it carries none.
C3_ComparesCloudUpdatedAt ==
    last.op = "receive_all_data" =>
        \A i \in 1..Len(last.data.operators) :
            LET d == last.data.operators[i] IN
            (ParsesAsTime(d.created_at) /\ d.cloud_updated_at.k \in {"iso", "null"})
                => IncomingTimestamp(d) = StatedUpdateTimestamp(d)

\* C8 (as stated): an operator row with deleted = TRUE never gets
\* deleted = FALSE again while it is in the table.
C8_DeletedStaysDeleted ==
    [][ \A p \in Peers : \A i \in 1..Len(operators[p]) :
          ( /\ operators[p][i].deleted
            /\ HasOperator(operators'[p], operators[p][i].operator_id) )
          => RowOf(operators'[p], operators[p][i].operator_id).deleted ]_vars

\* C5: when one body carries two logs with one (operator_id, login_time),
\* different shifts, and the store holds no log with that key, the call
\* inserts the first only: one log with the key afterwards, with the first
\* item's shift, and one log counted.
SameKeyPair(data) ==
    /\ Len(data.logs) = 2
    /\ ParsesAsTime(data.logs[1].login_time)
    /\ data.logs[1].login_time = data.logs[2].login_time
    /\ data.logs[1].operator_id = data.logs[2].operator_id
    /\ data.logs[1].shift # data.logs[2].shift
ItemKey(d) == << d.operator_id, fromisoformat(d.login_time) >>

C5_FirstOfSameKeyOnly ==
    [][ ( /\ HandlerStep("receive_all_data") /\ last'.status = 200
          /\ SameKeyPair(last'.data)
          /\ ItemKey(last'.data.logs[1]) \notin LogKeysOf(logs[last'.peer]) )
        => LET rows == LogsWithKey(logs'[last'.peer], ItemKey(last'.data.logs[1])) IN
           /\ Cardinality(rows) = 1
           /\ \A i \in rows : logs'[last'.peer][i].shift = last'.data.logs[1].shift
           /\ last'.logs_synced = 1 ]_vars

C5_Witness ==
    /\ last.op = "receive_all_data" /\ last.status = 200
    /\ SameKeyPair(last.data) /\ last.logs_synced = 1
    /\ \E i \in 1..Len(logs[last.peer]) :
          /\ LogKey(logs[last.peer][i]) = ItemKey(last.data.logs[1])
          /\ logs[last.peer][i].shift = last.data.logs[1].shift
          /\ logs[last.peer][i].synced_to_cloud

\* C6 (as stated): no two login logs of one store share operator_id and
\* login_time.
C6_LogKeysUnique ==
    \A p \in Peers : \A i, j \in 1..Len(logs[p]) :
        i # j => LogKey(logs[p][i]) # LogKey(logs[p][j])

\* C7 (as stated): no step takes an operator_id or a log key out of a store.
KeepsRecords ==
    \A p \in Peers :
        /\ OperatorIdsOf(operators[p]) \subseteq OperatorIdsOf(operators'[p])
        /\ LogKeysOf(logs[p]) \subseteq LogKeysOf(logs'[p])
C7_NothingRemoved == [][KeepsRecords]_vars

\* C7 (amended): every handler but reset_database keeps every operator_id
\* and every log key of the store; deletion sets the deleted flag.
C7_OnlyResetRemoves == [][~HandlerStep("reset_database") => KeepsRecords]_vars

C7_Witness ==
    /\ last.op = "delete_operator" /\ last.status = 204
    /\ \E i \in 1..Len(operators[last.peer]) : operators[last.peer][i].deleted
    /\ \E i \in 1..Len(logs[last.peer]) : logs[last.peer][i].deleted

\* C10 (as stated): whatever item of the body fails, receive_all_data
\* returns its result and the applicable logs of the body are in the store.
ApplicableLog(d) ==
    /\ d.operator_id \notin {Missing, None} /\ ParsesAsTime(d.login_time)
    /\ d.shift \notin {Missing, None} /\ d.date \notin {Missing, None}
    /\ ~OptTimeRaises(d.logout_time) /\ ~OptTimeRaises(d.deleted_at)
C10_ItemFailuresIsolated ==
    last.op = "receive_all_data" =>
        /\ last.status = 200
        /\ \A i \in 1..Len(last.data.logs) :
              ApplicableLog(last.data.logs[i])
                  => ItemKey(last.data.logs[i]) \in LogKeysOf(logs[last.peer])

\* ------------------------------------------------------------- SpecPair
\* Two stores: operators are created, deleted and logged in on A, and the
\* sync client carries A's snapshots to B, one sync at a time.
NextPair ==
    \/ Tick
    \/ ~SnapshotInFlight /\ create_operator("A", "OP1", "n1", "M1", "Day", NoUpload)
    \/ ~SnapshotInFlight /\ delete_operator("A", "OP1")
    \/ ~SnapshotInFlight /\ operator_login("A", "OP1", "Day", "d1")
    \/ SyncPull("A")
    \/ SyncPush("B")

SpecPair == Init /\ [][NextPair]_vars

\* C4 (as stated): when a sync from A reaches B, every operator that is
\* soft-deleted on A and present on B is deleted = TRUE on B afterwards.
C4_DeletePropagates ==
    [][ ( /\ HandlerStep("receive_all_data") /\ last'.peer = "B"
          /\ SnapshotInFlight /\ last.peer = "A" )
        => \A id \in OperatorIds :
              ( /\ HasOperator(operators["A"], id)
                /\ RowOf(operators["A"], id).deleted
                /\ HasOperator(operators["B"], id) )
              => ( /\ HasOperator(operators'["B"], id)
                   /\ RowOf(operators'["B"], id).deleted ) ]_vars

\* C9: the export of A since a watermark earlier than a row's creation
\* carries that operator and that log; posted to an empty store B, a
\* snapshot of one operator and one log leaves B with exactly that operator
\* and that log, both synced_to_cloud.
ExportCarries(p, data, w) ==
    /\ \A i \in 1..Len(operators[p]) :
          operators[p][i].created_at > w
              => \E k \in 1..Len(data.operators) :
                    data.operators[k].operator_id = operators[p][i].operator_id
    /\ \A i \in 1..Len(logs[p]) :
          logs[p][i].created_at > w
              => \E k \in 1..Len(data.logs) :
                    /\ ParsesAsTime(data.logs[k].login_time)
                    /\ ItemKey(data.logs[k]) = LogKey(logs[p][i])
                    /\ data.logs[k].shift = logs[p][i].shift

C9_ExportThenImportIntoEmpty ==
    [][ /\ (HandlerStep("get_all_data_since") /\ last' # last)
            => ExportCarries(last'.peer, last'.data, watermark)
        /\ ( /\ HandlerStep("receive_all_data") /\ SnapshotInFlight
             /\ operators[last'.peer] = << >> /\ logs[last'.peer] = << >>
             /\ Len(last.data.operators) = 1 /\ Len(last.data.logs) = 1 )
            => LET o == operators'[last'.peer]
                   l == logs'[last'.peer]
               IN /\ Len(o) = 1 /\ Len(l) = 1
                  /\ o[1].operator_id = last.data.operators[1].operator_id
                  /\ LogKey(l[1]) = ItemKey(last.data.logs[1])
                  /\ o[1].synced_to_cloud /\ l[1].synced_to_cloud ]_vars

C9_Witness ==
    /\ last.op = "receive_all_data" /\ last.peer = "B" /\ last.status = 200
    /\ last.operators_synced = 1 /\ last.logs_synced = 1
    /\ Len(operators["A"]) = 1 /\ Len(logs["A"]) = 1
    /\ Len(operators["B"]) = 1 /\ Len(logs["B"]) = 1
    /\ operators["B"][1].operator_id = "OP1" /\ operators["B"][1].synced_to_cloud
    /\ LogKey(logs["B"][1]) = LogKey(logs["A"][1]) /\ logs["B"][1].synced_to_cloud
    /\ logs["B"][1].shift = "Day"

\* C11 (as stated): the result of receive_all_data carries an error list
\* whenever an item of the batch failed.
C11_ResultHasErrorList ==
    (last.op = "receive_all_data" /\ last.status = 200 /\ last.printed > 0)
        => "errors" \in last.keys

\* C12: a receive_all_data call is persisted as one unit.  A call that
\* fails leaves the three tables as they were; a call that returns has
\* every log and admin it counted in the tables, and no operator, log or
\* admin row goes away.
C12_ImportIsOneUnit ==
    [][ HandlerStep("receive_all_data") =>
          LET p == last'.peer IN
          IF last'.status = 200
          THEN /\ Len(logs'[p]) = Len(logs[p]) + last'.logs_synced
               /\ Len(admins'[p]) = Len(admins[p]) + last'.admins_synced
               /\ Len(operators'[p]) >= Len(operators[p])
               /\ \A i \in 1..Len(last'.data.logs) :
                     ApplicableLog(last'.data.logs[i])
                         => ItemKey(last'.data.logs[i]) \in LogKeysOf(logs'[p])
          ELSE /\ operators' = operators /\ logs' = logs /\ admins' = admins ]_vars

\* A failed call whose body held a log the store would have taken.
C12_Witness ==
    /\ last.op = "receive_all_data" /\ last.status = 500
    /\ \E i \in 1..Len(last.data.logs) :
          /\ ApplicableLog(last.data.logs[i])
          /\ ItemKey(last.data.logs[i]) \notin LogKeysOf(logs[last.peer])

\* C13 (as stated): after receive_all_data creates or overwrites an
\* operator, the row has synced_to_cloud = TRUE and cloud_updated_at = the
\* time of the import; every log the call inserts has synced_to_cloud = TRUE.
C13_AppliedIsMarkedSynced ==
    [][ (HandlerStep("receive_all_data") /\ last'.status = 200) =>
          LET p == last'.peer IN
          /\ \A i \in 1..Len(operators'[p]) :
                LET e2 == operators'[p][i] IN
                ( \/ ~HasOperator(operators[p], e2.operator_id)
                  \/ RowOf(operators[p], e2.operator_id) # e2 )
                => (e2.synced_to_cloud /\ e2.cloud_updated_at = now)
          /\ \A i \in 1..Len(logs'[p]) :
                LogKey(logs'[p][i]) \notin LogKeysOf(logs[p])
                    => logs'[p][i].synced_to_cloud ]_vars

\* -------------------------------------------------------------- SpecIds
\* The operator registry of one store when ids meet: create_operator and
\* incoming operators of the same id, two of them in one body included.
IdBodies ==
    { OnlyOperators(<< OpItem("OP1", "n2", isoformat(1), NullTime, FALSE, NullTime),
                       OpItem("OP1", "n3", isoformat(MaxTime), NullTime, FALSE, NullTime) >>),
      OnlyOperators(<< OpItem("OP1", "n2", isoformat(MaxTime), NullTime, FALSE, NullTime) >>),
      OnlyOperators(<< OpItem("OP2", "n4", isoformat(1), NullTime, FALSE, NullTime) >>) }

NextIds ==
    \/ Tick
    \/ \E id \in OperatorIds : create_operator("A", id, "n1", "M1", "Day", NoUpload)
    \/ delete_operator("A", "OP1")
    \/ \E data \in IdBodies : receive_all_data("A", data)

SpecIds == Init /\ [][NextIds]_vars

\* C14: no two operator rows of one store share an operator_id; a
\* create_operator that is rejected (400) leaves the tables as they were
\* and one that is accepted adds one row; receive_all_data adds a row only
\* for an id the store does not hold, also when the body names it twice.
UniqueOperatorIds(ops) ==
    \A i, j \in 1..Len(ops) : i # j => ops[i].operator_id # ops[j].operator_id

RowsWithId(ops, id) == {k \in 1..Len(ops) : ops[k].operator_id = id}

C14_OperatorIdUnique ==
    [][ /\ \A p \in Peers : UniqueOperatorIds(operators'[p])
        /\ HandlerStep("create_operator") =>
              IF last'.status = 201
              THEN Len(operators'[last'.peer]) = Len(operators[last'.peer]) + 1
              ELSE operators' = operators /\ logs' = logs /\ admins' = admins
        /\ HandlerStep("receive_all_data") =>
              \A id \in OperatorIds :
                  HasOperator(operators[last'.peer], id)
                      => RowsWithId(operators'[last'.peer], id)
                             = RowsWithId(operators[last'.peer], id) ]_vars

\* A body that names one id twice has been imported and the store holds
\* the id once.
C14_Witness ==
    /\ last.op = "receive_all_data" /\ last.status = 200
    /\ Len(last.data.operators) = 2
    /\ last.data.operators[1].operator_id = last.data.operators[2].operator_id
    /\ Cardinality({k \in 1..Len(operators[last.peer]) :
           operators[last.peer][k].operator_id = last.data.operators[1].operator_id}) = 1

\* ----------------------------------------------------------- SpecAdmins
\* The admins of one store under create_admin and incoming admins: a
\* username the store holds with another hash, a new username, a username
\* twice in one body, items without a usable hash.
AdminItem(username, hashed_password) ==
    [username |-> username, hashed_password |-> hashed_password,
     created_at |-> isoformat(1)]
OnlyAdmins(items) == [EmptySnapshot EXCEPT !.admins = items]

AdminBodies ==
    { OnlyAdmins(<< AdminItem("admin", "h-other") >>),
      OnlyAdmins(<< AdminItem("root", "h-root") >>),
      OnlyAdmins(<< AdminItem("root", "h-root"), AdminItem("root", "h-pw1") >>),
      OnlyAdmins(<< AdminItem("admin", "h-other"), AdminItem("root", Missing) >>),
      OnlyAdmins(<< AdminItem("root", None) >>) }

NextAdmins ==
    \/ Tick
    \/ create_admin("A", "root", "pw1")
    \/ create_operator("A", "OP1", "n1", "M1", "Day", NoUpload)
    \/ delete_operator("A", "OP1")
    \/ \E data \in AdminBodies : receive_all_data("A", data)

SpecAdmins == Init /\ [][NextAdmins]_vars

\* C15: receive_all_data leaves every admin row of the store as it was, and
\* the rows it adds carry usernames the store did not hold, each once.
UsernamesOf(adm) == {adm[i].username : i \in 1..Len(adm)}

C15_AdminsOnlyCreated ==
    [][ HandlerStep("receive_all_data") =>
          LET old == admins[last'.peer]
              new == admins'[last'.peer]
          IN /\ Len(new) >= Len(old)
             /\ \A i \in 1..Len(old) : new[i] = old[i]
             /\ \A j \in (Len(old) + 1)..Len(new) :
                   /\ new[j].username \notin UsernamesOf(old)
                   /\ \A k \in (Len(old) + 1)..Len(new) :
                         k # j => new[k].username # new[j].username ]_vars

\* An incoming admin with the username of a local admin and another hash
\* has been imported; the local admin keeps its hash.
C15_Witness ==
    /\ last.op = "receive_all_data" /\ last.status = 200
    /\ last.admins_synced = 0 /\ Len(last.data.admins) >= 1
    /\ \E i \in 1..Len(admins[last.peer]) :
          /\ admins[last.peer][i].username = last.data.admins[1].username
          /\ admins[last.peer][i].hashed_password # last.data.admins[1].hashed_password

\* C16 (as stated): a log of the body that the store does not hold, whose
\* operator_id has no operator row once the operators of the body are in,
\* is inserted and persisted by the call.
C16_LogWithoutOperatorIsKept ==
    [][ ( /\ HandlerStep("receive_all_data")
          /\ Len(last'.data.operators) = 0 /\ Len(last'.data.logs) = 1
          /\ ApplicableLog(last'.data.logs[1])
          /\ ItemKey(last'.data.logs[1]) \notin LogKeysOf(logs[last'.peer])
          /\ ~HasOperator(operators[last'.peer], last'.data.logs[1].operator_id) )
        => ( /\ last'.status = 200
             /\ ItemKey(last'.data.logs[1]) \in LogKeysOf(logs'[last'.peer]) ) ]_vars

\* ----------------------------------------------------------- SpecExport
\* One store under create, delete and login, exported since every time of
\* the clock, since 2000-01-01 and since a text that is no timestamp.
SinceValues == {isoformat(t) : t \in Floor..MaxTime} \cup {BadTime}

NextExport ==
    \/ Tick
    \/ \E id \in OperatorIds : create_operator("A", id, "n1", "M1", "Day", NoUpload)
    \/ delete_operator("A", "OP1")
    \/ operator_login("A", "OP1", "Day", "d1")
    \/ \E since \in SinceValues : get_all_data_since("A", since)

SpecExport == Init /\ [][NextExport]_vars

\* C17: the snapshot of get_all_data_since(w) holds one item for each
\* operator, log and admin row with created_at > w, deleted rows included
\* with their flag, and nothing else.
LaterRows(rows, w) == {i \in 1..Len(rows) : rows[i].created_at > w}

C17_ExportIsExactlyTheLaterRows ==
    (last.op = "get_all_data_since" /\ ParsesAsTime(last.since)) =>
        LET w == fromisoformat(last.since)
            o == operators[last.peer]
            l == logs[last.peer]
            a == admins[last.peer]
            d == last.data
        IN /\ Len(d.operators) = Cardinality(LaterRows(o, w))
           /\ Len(d.logs) = Cardinality(LaterRows(l, w))
           /\ Len(d.admins) = Cardinality(LaterRows(a, w))
           /\ \A i \in LaterRows(o, w) : \E k \in 1..Len(d.operators) :
                 /\ d.operators[k].operator_id = o[i].operator_id
                 /\ d.operators[k].deleted = BoolText(o[i].deleted)
                 /\ d.operators[k].created_at = isoformat(o[i].created_at)
           /\ \A i \in LaterRows(l, w) : \E k \in 1..Len(d.logs) :
                 /\ ItemKey(d.logs[k]) = LogKey(l[i])
                 /\ d.logs[k].deleted = BoolText(l[i].deleted)
           /\ \A i \in LaterRows(a, w) : \E k \in 1..Len(d.admins) :
                 d.admins[k].username = a[i].username

\* An export that takes a soft-deleted operator and leaves out the admin
\* created at the watermark.
C17_Witness ==
    /\ last.op = "get_all_data_since" /\ last.since = isoformat(1)
    /\ Len(last.data.admins) = 0 /\ Len(admins[last.peer]) = 1
    /\ \E k \in 1..Len(last.data.operators) : last.data.operators[k].deleted = "true"
    /\ Len(last.data.logs) >= 1

\* C18: with a since that is no timestamp, get_all_data_since answers 200
\* with the snapshot it gives for since = 2000-01-01T00:00:00, which holds
\* every row of the store.
C18_BadSinceIsFloor ==
    (last.op = "get_all_data_since" /\ ~ParsesAsTime(last.since)) =>
        /\ last.status = 200
        /\ last.data = ExportSnapshot(operators[last.peer], logs[last.peer],
                                      admins[last.peer], files[last.peer],
                                      isoformat(Floor))
        /\ Len(last.data.operators) = Len(operators[last.peer])
        /\ Len(last.data.logs) = Len(logs[last.peer])
        /\ Len(last.data.admins) = Len(admins[last.peer])

C18_Witness ==
    /\ last.op = "get_all_data_since" /\ last.since = BadTime
    /\ last.status = 200
    /\ Len(last.data.operators) >= 1 /\ Len(last.data.logs) >= 1

\* ------------------------------------------------------------- SpecRace
\* One store and the calls that reach it, between create_operator and
\* delete_operator: a call and its retry wait together and are served in
\* either order.
RaceBodies ==
    { [OnlyOperators(<< OpItem("OP1", "n2", isoformat(1), NullTime, FALSE, NullTime) >>)
          EXCEPT !.logs = << LogItem("OP1", isoformat(1), "Day") >>],
      [OnlyOperators(<< OpItem("OP2", "n4", isoformat(MaxTime), NullTime, FALSE, NullTime) >>)
          EXCEPT !.logs = << LogItem("OP2", isoformat(MaxTime), "Night") >>] }

NextRace ==
    \/ Tick
    \/ create_operator("A", "OP1", "n1", "M1", "Day", NoUpload)
    \/ delete_operator("A", "OP1")
    \/ \E data \in RaceBodies : SendCall(data)
    \/ \E k \in 1..Len(calls) : RetryCall(k)
    \/ \E k \in 1..Len(calls) : ServeCall("A", k)

SpecRace == Init /\ [][NextRace]_vars

\* C19: once a call and its retry, sent while the call was waiting, have
\* both been served, the store holds each operator_id of their snapshot
\* once and each (operator_id, login_time) of it once.
BothServed(i, j) ==
    /\ i # j /\ calls[i].data = calls[j].data
    /\ calls[i].twin /\ calls[j].twin /\ calls[i].done /\ calls[j].done

C19_RacingRetryDoesNotDuplicate ==
    \A i, j \in 1..Len(calls) :
        BothServed(i, j) =>
            LET d == calls[i].data IN
            /\ \A k \in 1..Len(d.operators) :
                  Cardinality(RowsWithId(operators["A"], d.operators[k].operator_id)) = 1
            /\ \A k \in 1..Len(d.logs) :
                  Cardinality(LogsWithKey(logs["A"], ItemKey(d.logs[k]))) = 1

C19_Witness ==
    /\ \E i, j \in 1..Len(calls) : BothServed(i, j)
    /\ last.op = "receive_all_data" /\ last.status = 200 /\ last.logs_synced = 0
    /\ Len(last.data.logs) = 1
    /\ Len(logs["A"]) = 1 /\ Len(operators["A"]) = 1

\* ----------------------------------------------------------- SpecImages
\* Operators with a face image on A, created on B without one, and the
\* sync client carrying A's snapshots to B.
ImageContents == { << >>, << 7 >>, Image1, << 7, 200, 255 >>, << 255, 0, 63, 64 >> }

NextImages ==
    \/ Tick
    \/ \E b \in ImageContents :
          ~SnapshotInFlight /\ create_operator("A", "OP1", "n1", "M1", "Day", Upload(b))
    \/ ~SnapshotInFlight /\ create_operator("B", "OP1", "n0", "M1", "Day", NoUpload)
    \/ SyncPull("A")
    \/ SyncPush("B")

SpecImages == Init /\ [][NextImages]_vars

\* C20 (as stated): when a sync from A creates or overwrites an operator
\* on B and A holds an image file for it, B's row refers to a file written
\* by this import whose bytes are the bytes of A's file.
HasImageFile(p, r) ==
    r.face_image_path # NoPath /\ FileExists(files[p], r.face_image_path)

C20_ImageArrivesIntact ==
    [][ ( /\ HandlerStep("receive_all_data") /\ last'.peer = "B"
          /\ last'.status = 200
          /\ SnapshotInFlight /\ last.peer = "A" )
        => \A k \in 1..Len(last.data.operators) :
              LET id == last.data.operators[k].operator_id
                  a == RowOf(operators["A"], id)
                  applied == \/ ~HasOperator(operators["B"], id)
                             \/ RowOf(operators'["B"], id) # RowOf(operators["B"], id)
              IN (HasOperator(operators["A"], id) /\ HasImageFile("A", a) /\ applied)
                 => LET b2 == RowOf(operators'["B"], id) IN
                    /\ b2.face_image_path = ImagePath(id, now)
                    /\ FileExists(files'["B"], b2.face_image_path)
                    /\ ReadFile(files'["B"], b2.face_image_path)
                           = ReadFile(files["A"], a.face_image_path) ]_vars

\* -------------------------------------------------------- SpecPublisher
\* The publisher alone, from the module's MQTTClient() on: connect,
\* disconnect and the two publish methods called from the server's thread,
\* the callbacks and the loop's own reconnect on the network thread, and a
\* broker that goes and comes.
InitPublisher ==
    /\ InitStore
    /\ mqtt_client = MQTTClient
    /\ clients = << >>
    /\ broker \in {"up", "down"}
    /\ flow = [t \in Threads |-> NoFlow]

NextPublisher ==
    \/ connect
    \/ ConnectReturns
    \/ disconnect
    \/ \E machine_no \in MachineNos : publish_unlock_signal(machine_no, "OP1")
    \/ \E machine_no \in MachineNos : publish_lock_signal(machine_no, "OP1")
    \/ \E t \in Threads : ReconnectAttempt(t)
    \/ \E t \in Threads : ReconnectSettle(t)
    \/ \E t \in Threads : ReconnectDelay(t)
    \/ \E k \in 1..Len(clients) : \E rc \in ConnackCodes : on_connect(k, rc)
    \/ \E k \in 1..Len(clients) : \E rc \in LostCodes : on_disconnect(k, rc)
    \/ \E k \in 1..Len(clients) : LoopReconnect(k)
    \/ BrokerChanges

SpecPublisher == InitPublisher /\ [][NextPublisher]_vars

PublishOps == {"publish_unlock_signal", "publish_lock_signal"}
\* A publish method called outside a handler has returned.
PublishReturned == last.op \in PublishOps /\ last.mqtt_success # "pending"

\* C21: whatever state the publisher is in when publish_unlock_signal or
\* publish_lock_signal is called, the call returns True or False and never
\* raises; when _reconnect returned False (still not connected after the
\* reconnection procedure) the call returns False and has sent nothing.
C21_PublishReturnsBool ==
    PublishReturned =>
        /\ last.mqtt_success \in {"True", "False"}
        /\ last.reconnect = "False" =>
              (last.mqtt_success = "False" /\ last.signal.topic = None)

\* A publish called before any connect(): no client object, five attempts
\* that each raised, False returned and nothing sent.
C21_Witness ==
    /\ PublishReturned
    /\ mqtt_client.client = 0
    /\ last.was_connected = "False"
    /\ last.made = max_reconnect_attempts
    /\ last.mqtt_success = "False"

\* C22: a run of _reconnect makes at most max_reconnect_attempts attempts,
\* in the thread that runs it and as the returned call recorded it.
C22_RunMakesAtMostFive ==
    /\ \A t \in Threads : flow[t].made <= max_reconnect_attempts
    /\ last.made <= max_reconnect_attempts

\* C23: a publish call that found the publisher not connected has made at
\* least one reconnect attempt by the time it returns.
C23_NotConnectedCallAttempts ==
    (PublishReturned /\ last.was_connected = "False") => last.made >= 1

\* The disconnect callback of the current client has just run with reason
\* code rc # 0 on a connected publisher.
UnexpectedClosure ==
    /\ mqtt_client.connected
    /\ mqtt_client.client # 0
    /\ clients[mqtt_client.client].session = "open"
    /\ clients'[mqtt_client.client].session = "none"
    /\ flow["main"] = flow'["main"]
    /\ last' = last

\* C24: when the broker closes the connection of a connected publisher,
\* the flag is cleared and the reconnection procedure is started: the
\* callback, on the network thread, is in the loop of _reconnect about to
\* make an attempt.
C24_ClosureStartsReconnect ==
    [][UnexpectedClosure =>
          /\ ~mqtt_client'.connected
          /\ flow'["net"].op = "_on_disconnect"
          /\ flow'["net"].pc = "attempt"]_vars

\* C25: while the current client is one that disconnect() has closed and
\* connect() has not replaced, no thread makes a reconnect attempt and the
\* publisher stays not connected; disconnect() called again changes
\* nothing of the publisher.
C25_DisconnectIsTerminal ==
    [][(mqtt_client.client # 0 /\ clients[mqtt_client.client].closed
           /\ mqtt_client'.client = mqtt_client.client) =>
          /\ mqtt_client'.connection_attempts <= mqtt_client.connection_attempts
          /\ clients'[mqtt_client.client].closed
          /\ ~mqtt_client'.connected]_vars

\* C26: connect() called on a connected publisher changes nothing: the
\* same client object, no new one made, the flag still set.
C26_ConnectIsIdempotent ==
    [][(mqtt_client.connected /\ last'.op = "connect" /\ MainIdle
           /\ last' # last) =>
          /\ clients' = clients
          /\ mqtt_client' = mqtt_client]_vars

\* connect() returns in this step: from its except clause, or after its
\* time.sleep(2).
ConnectReturnsNow ==
    \/ MainIdle /\ last'.op = "connect" /\ last'.mqtt_success = "raised"
          /\ Len(clients') > Len(clients)
    \/ flow["main"].op = "connect" /\ flow'["main"].pc = "idle"

\* C27: connect() returns (it never raises), and when establishing the
\* session of the client it made has failed by then (client.connect()
\* raised, or the broker refused or closed the session: the new client has
\* no socket), the publisher is not connected when connect() returns.
C27_FailedConnectLeavesDisconnected ==
    [][(ConnectReturnsNow
           /\ clients'[mqtt_client'.client].session = "none") =>
          ~mqtt_client'.connected]_vars

\* Thread t is inside the loop of _reconnect.
InReconnect(t) == flow[t].pc \in {"attempt", "settle", "delay"}

\* C28: at most one thread at a time is inside the reconnection procedure.
C28_OneFlowReconnects == ~(InReconnect("main") /\ InReconnect("net"))

\* ----------------------------------------------------------- SpecSignal
\* Login and logout of one operator on one store, with the publisher they
\* call: from MQTTClient() on, connect() run or not, the broker there or
\* not, and the CONNACK read or refused on the network thread.
NextSignal ==
    \/ \E machine_no \in MachineNos :
          MainIdle /\ create_operator("A", "OP1", "n1", machine_no, "Day", NoUpload)
    \/ operator_login("A", "OP1", "Day", "d1")
    \/ operator_logout("A", "OP1")
    \/ connect
    \/ ConnectReturns
    \/ ReconnectAttempt("main")
    \/ ReconnectSettle("main")
    \/ ReconnectDelay("main")
    \/ \E k \in 1..Len(clients) : \E rc \in ConnackCodes : on_connect(k, rc)
    \/ BrokerChanges

SpecSignal == InitPublisher /\ [][NextSignal]_vars

\* A step in which the handler op is called, and a step in which the
\* publish method a handler called returns after its _reconnect.
HandlerCalled(op) ==
    MainIdle /\ last'.op = op /\ (last' # last \/ logs' # logs)
HandlerPublishReturns ==
    /\ ~MainIdle /\ flow'["main"].pc = "idle"
    /\ last.op \in {"operator_login", "operator_logout"}

\* What operator_login and operator_logout of OP1 leave in the store of A
\* when they find the operator.
LoginStored ==
    /\ logs'["A"] = Append(logs["A"], NewLoginLog("OP1", now, "Day", "d1", now))
    /\ operators'["A"] = [operators["A"] EXCEPT
                             ![FindOperator(operators["A"], "OP1")].status = "Active"]
LogoutStored ==
    IF MostRecentOpen(logs["A"], "OP1") = {}
    THEN UNCHANGED << operators, logs >>
    ELSE /\ \E k \in MostRecentOpen(logs["A"], "OP1") :
               logs'["A"] = [logs["A"] EXCEPT ![k].logout_time = now]
         /\ operators'["A"] = [operators["A"] EXCEPT
                                  ![FindOperator(operators["A"], "OP1")].status = "Offline"]

\* C29: operator_login and operator_logout of an operator that exists
\* answer 200 and store the login log, or the logout time, whatever the
\* publish method returns: the store they leave does not depend on it, and
\* a publish that returns later, True or False, changes neither the store
\* nor the answer.
C29_PublishFailureKeepsResult ==
    [][/\ (HandlerCalled("operator_login") /\ HasOperator(operators["A"], "OP1")) =>
              (last'.status = 200 /\ LoginStored)
       /\ (HandlerCalled("operator_logout") /\ HasOperator(operators["A"], "OP1")) =>
              (last'.status = 200 /\ LogoutStored)
       /\ HandlerPublishReturns =>
              (last'.status = 200 /\ UNCHANGED << operators, logs, admins, files >>)]_vars

\* A login whose publish returned False after five attempts, its log in
\* the store, and then a logout whose publish returned False, the logout
\* time in the store.
C29_Witness ==
    /\ last.op = "operator_logout" /\ last.status = 200
    /\ last.mqtt_success = "False"
    /\ \E k \in 1..Len(logs["A"]) :
          /\ logs["A"][k].operator_id = "OP1"
          /\ logs["A"][k].logout_time # NoTime

\* The signal the last login or logout handed to the broker, if any.
SignalSent ==
    /\ last.op \in {"operator_login", "operator_logout"}
    /\ last.signal.topic # None

\* C30: a login whose publish succeeded has sent a signal, and so has a
\* logout; the signal of a login has action "unlock", that of a logout
\* "lock"; either carries the operator's id and the machine number of the
\* operator's row, and went to factory/machine/{machine_no}/unlock with
\* QoS 1, not retained.
C30_SignalOfLoginAndLogout ==
    /\ (last.op \in {"operator_login", "operator_logout"}
           /\ last.mqtt_success = "True") => SignalSent
    /\ SignalSent =>
          LET row == RowOf(operators["A"], "OP1") IN
          /\ last.signal.payload.action =
                (IF last.op = "operator_login" THEN "unlock" ELSE "lock")
          /\ last.signal.payload.operator_id = "OP1"
          /\ last.signal.payload.machine_no = row.machine_no
          /\ last.signal.topic = "factory/machine/" \o row.machine_no \o "/unlock"
          /\ last.signal.qos = 1
          /\ last.signal.retain = FALSE

\* A logout that sent its lock signal to the unlock topic of machine M1.
C30_Witness ==
    /\ SignalSent
    /\ last.op = "operator_logout"
    /\ last.signal.payload.action = "lock"
    /\ last.signal.topic = "factory/machine/M1/unlock"

\* --------------------------------------------------------- SpecExchange
\* Two stores, each with its own create, update, delete and login, and
\* then full exchanges between them with no local request in between.
NextExchange ==
    \/ exchange = 0 /\ Tick
    \/ \E p \in Peers : \E name \in {"n0", "n1"} :
          exchange = 0 /\ create_operator(p, "OP1", name, "M1", "Day", NoUpload)
    \/ exchange = 0 /\ update_operator("A", "OP1", UpdateOf("n3"))
    \/ exchange = 0 /\ delete_operator("B", "OP1")
    \/ exchange = 0 /\ operator_login("A", "OP1", "Day", "d1")
    \/ \E src \in Peers : ExchangePull(src)
    \/ \E dst \in Peers : ExchangePush(dst)
    \/ ExchangeEnds

SpecExchange == Init /\ [][NextExchange]_vars

\* The fields of an operator the two stores are to agree on.
Agreed(r) == << r.operator_id, r.name, r.machine_no, r.shift, r.status, r.deleted >>
AgreedOperators(p) == {Agreed(operators[p][i]) : i \in 1..Len(operators[p])}

\* C31 (as stated): once a full exchange has been carried out (A's export
\* imported by B, then B's export imported by A, since 2000-01-01, no
\* local request in between) both stores hold the same operators with the
\* same name, machine_no, shift, status and deleted flag, and the legs of
\* a further full exchange change none of these fields on either side.
C31_ExchangeConverges ==
    [][exchange >= 4 =>
          /\ AgreedOperators("A") = AgreedOperators("B")
          /\ \A p \in Peers : AgreedOperators(p)' = AgreedOperators(p)]_vars

\* The logs of store p whose logout_time this step changes.
LogoutTimeChanged(p) ==
    {k \in 1..Len(logs[p]) :
        k <= Len(logs'[p]) /\ logs'[p][k].logout_time # logs[p][k].logout_time}

\* C32: a logout_time that is set is changed by no later operator_logout
\* and no receive_all_data, also when an incoming log of the same key
\* carries another one; operator_logout sets the logout_time of one log at
\* most, an open log of its operator that has the latest login_time among
\* the operator's open logs.
C32_LogoutTimeSetOnce ==
    [][\A p \in Peers :
          /\ (HandlerStep("operator_logout") \/ HandlerStep("receive_all_data")) =>
                \A k \in LogoutTimeChanged(p) : logs[p][k].logout_time = NoTime
          /\ HandlerStep("receive_all_data") => LogoutTimeChanged(p) = {}
          /\ HandlerStep("operator_logout") =>
                /\ Cardinality(LogoutTimeChanged(p)) <= 1
                /\ \A k \in LogoutTimeChanged(p) :
                      /\ \A j \in 1..Len(logs[p]) :
                            ( /\ logs[p][j].operator_id = logs[p][k].operator_id
                              /\ logs[p][j].logout_time = NoTime )
                            => logs[p][j].login_time <= logs[p][k].login_time
                      /\ logs'[p][k].logout_time = now]_vars

\* A log that is closed and a log of a later login that is open have met
\* an incoming log with the key of the closed one and no logout_time.
C32_Witness ==
    /\ last.op = "receive_all_data" /\ last.status = 200
    /\ \E k \in 1..Len(logs[last.peer]) : \E i \in 1..Len(last.data.logs) :
          /\ logs[last.peer][k].logout_time # NoTime
          /\ ParsesAsTime(last.data.logs[i].login_time)
          /\ ItemKey(last.data.logs[i]) = LogKey(logs[last.peer][k])
          /\ last.data.logs[i].logout_time = NullTime
    /\ \E k \in 1..Len(logs[last.peer]) : logs[last.peer][k].logout_time = NoTime

\* The logs of store p all come from operator_login: none was imported.
OnlyLocalLogs(p) == \A k \in 1..Len(logs[p]) : ~logs[p][k].synced_to_cloud

\* C33 (as stated): in a store whose logs all come from its own
\* operator_login calls, each operator has at most one open login log
\* (logout_time null).
C33_AtMostOneOpenLog ==
    \A p \in Peers : OnlyLocalLogs(p) =>
        \A i, j \in 1..Len(logs[p]) :
            ( /\ logs[p][i].operator_id = logs[p][j].operator_id
              /\ logs[p][i].logout_time = NoTime
              /\ logs[p][j].logout_time = NoTime ) => i = j

\* C34: receive_all_data leaves every login log the store holds as it is,
\* field by field (logout_time, shift, date, deleted, deleted_at,
\* synced_to_cloud, synced_at), also when the body carries a log of the
\* same (operator_id, login_time) with other values.
C34_StoredLogsUnchanged ==
    [][HandlerStep("receive_all_data") =>
          LET p == last'.peer IN
          /\ Len(logs'[p]) >= Len(logs[p])
          /\ \A k \in 1..Len(logs[p]) : logs'[p][k] = logs[p][k]]_vars

\* An import has met a stored log of a local login with an incoming log of
\* its key and another shift, and counted no log.
C34_Witness ==
    /\ last.op = "receive_all_data" /\ last.status = 200 /\ last.logs_synced = 0
    /\ \E k \in 1..Len(logs[last.peer]) : \E i \in 1..Len(last.data.logs) :
          /\ ~logs[last.peer][k].synced_to_cloud
          /\ ParsesAsTime(last.data.logs[i].login_time)
          /\ ItemKey(last.data.logs[i]) = LogKey(logs[last.peer][k])
          /\ last.data.logs[i].shift # logs[last.peer][k].shift

\* The rows of a table that a step added or changed.
Touched(old, new) ==
    {i \in 1..Len(new) : i > Len(old) \/ new[i] # old[i]}

\* C35 (as stated): every operator and every login log that a step of
\* create_operator, update_operator, delete_operator, operator_login or
\* operator_logout adds or changes has synced_to_cloud = FALSE afterwards.
C35_LocalChangeClearsSynced ==
    [][(\E op \in {"create_operator", "update_operator", "delete_operator",
                   "operator_login", "operator_logout"} : HandlerStep(op)) =>
          \A p \in Peers :
              /\ \A i \in Touched(operators[p], operators'[p]) :
                    ~operators'[p][i].synced_to_cloud
              /\ \A i \in Touched(logs[p], logs'[p]) :
                    ~logs'[p][i].synced_to_cloud]_vars

\* C36 (as stated): the counter connection_attempts is between 0 and
\* max_reconnect_attempts in every state, also while the disconnect
\* callback on the network thread and a publish call are both inside
\* _reconnect.
C36_AttemptsWithinLimit ==
    /\ mqtt_client.connection_attempts >= 0
    /\ mqtt_client.connection_attempts <= max_reconnect_attempts

\* C37 (as stated): when the only operator item of a body names an
\* operator the store holds and carries a deleted_at that is no timestamp,
\* the call returns and the stored row is what it was: none of the item's
\* fields is on it.
C37_FailedItemLeavesRow ==
    [][(HandlerStep("receive_all_data") /\ Len(last'.data.operators) = 1) =>
          LET p == last'.peer
              d == last'.data.operators[1]
          IN ( /\ d.operator_id # Missing /\ d.name # Missing
               /\ OptTimeRaises(d.deleted_at)
               /\ HasOperator(operators[p], d.operator_id) )
             => ( /\ last'.status = 200
                  /\ RowOf(operators'[p], d.operator_id)
                        = RowOf(operators[p], d.operator_id) )]_vars

\* ----------------------------------------------------------- SpecStatus
\* The status of one operator on one store: login and logout, an update
\* that sets the status, and an incoming copy of the operator that says
\* Active.
NextStatus ==
    \/ Tick
    \/ create_operator("A", "OP1", "n1", "M1", "Day", NoUpload)
    \/ update_operator("A", "OP1", [UpdateOf(Missing) EXCEPT !.status = "Active"])
    \/ operator_login("A", "OP1", "Day", "d1")
    \/ operator_logout("A", "OP1")
    \/ receive_all_data("A",
          OnlyOperators(<< [OpItem("OP1", "n1", isoformat(MaxTime), NullTime,
                                   FALSE, NullTime)
                            EXCEPT !.status = "Active"] >>))

SpecStatus == Init /\ [][NextStatus]_vars

\* C38 (as stated): after an operator_logout that answered 200 the
\* operator's stored status is "Offline", whether the operator had an open
\* login log or not.
C38_LogoutLeavesOffline ==
    [][(HandlerStep("operator_logout") /\ last'.status = 200) =>
          RowOf(operators'[last'.peer], "OP1").status = "Offline"]_vars

\* C39 (as stated): operator_login of OP1 on a store that does not hold
\* OP1, or holds it with deleted = TRUE, leaves the operators and the logs
\* of the store as they were and sends no signal.
C39_NoLoginOfMissingOrDeleted ==
    [][(HandlerStep("operator_login")
           /\ ( \/ ~HasOperator(operators[last'.peer], "OP1")
                \/ RowOf(operators[last'.peer], "OP1").deleted )) =>
          /\ operators' = operators
          /\ logs' = logs
          /\ last'.signal.topic = None]_vars

====
